---- MODULE Spec2Model ----
(***************************************************************************)
(* A model of the GDrive Stremio addon, revision v1.1.4 (src/index.js,     *)
(* lines 1-388): the access-token cache, the paginated lister, and the     *)
(* catalog / meta / stream / playback / subtitles handlers over the        *)
(* key/value cache.  Times are in milliseconds, as Date.now() gives them.  *)
(***************************************************************************)
EXTENDS Integers, Sequences, FiniteSets, TLC

VARIABLES
    now,               \* Date.now()
    accessTokenCache,  \* let accessTokenCache = { token, exp }; token 0 is null
    issued,            \* tokens the token endpoint has issued so far: 1..issued
    realExp,           \* realExp[n]: the instant token n really expires
    tpc,               \* getAccessToken callers: where each call stands
    tcall,             \* per caller: what it saw when called and what it got
    remote,            \* the remote listing: cursor -> page (cursor 0: no pageToken)
    allFiles,          \* listAllFiles: let allFiles
    pageToken,         \* listAllFiles: let pageToken; 0 is null / undefined
    lpc,               \* listAllFiles: "request", "done" (returned) or "threw"
    sent,              \* the pageToken of each request listAllFiles issued
    lfail,             \* the number of the first page request that failed, else 0
    revision,          \* the revision of index.js that serves
    backend,           \* kvCache: "redis", "mock" (the fallback) or "throwing"
    kv,                \* the records the key/value store holds, by key
    last,              \* the request handled last and what its handler did
    handled,           \* the requests handled so far
    folder,            \* handleMeta: the folder entity (its name)
    contents,          \* handleMeta: allContents, the files of the folder as listed
    beneath,           \* the remote: what lies in each subfolder of the folder
    metaVideos,        \* handleMeta: meta.videos
    mpc,               \* handleMeta: "listed", then "built"
    call,              \* one call of the remote API: its token, request and reply
    pool,              \* the credential pool: identities, cursor, token entries
    kvCache,           \* kvCache on its own: the backend, its records, the last get
    inflight,          \* meta requests in flight together over one folder
    catalog,           \* handleCatalog: the listing in remote order, the metas sent
    timed,             \* one request under the request-level timeout
    runs,              \* two runs of one request that differ in their secrets
    playback           \* handlePlayback: the client request, the media request, the reply

tokenVars == <<now, accessTokenCache, issued, realExp, tpc, tcall>>
listVars == <<remote, allFiles, pageToken, lpc, sent, lfail>>
handlerVars == <<revision, backend, kv, last, handled>>
seriesVars == <<folder, contents, beneath, metaVideos, mpc>>
vars == <<tokenVars, listVars, handlerVars, seriesVars, call, pool, kvCache, inflight,
    catalog, timed, runs, playback>>
otherThanToken == <<listVars, handlerVars, seriesVars, call, pool, kvCache, inflight,
    catalog, timed, runs, playback>>
otherThanList == <<tokenVars, handlerVars, seriesVars, call, pool, kvCache, inflight,
    catalog, timed, runs, playback>>
otherThanHandlers == <<tokenVars, listVars, seriesVars, call, pool, kvCache, inflight,
    catalog, timed, runs, playback>>
otherThanSeries == <<tokenVars, listVars, handlerVars, call, pool, kvCache, inflight,
    catalog, timed, runs, playback>>
otherThanCall == <<tokenVars, listVars, handlerVars, seriesVars, pool, kvCache, inflight,
    catalog, timed, runs, playback>>
otherThanPool == <<tokenVars, listVars, handlerVars, seriesVars, call, kvCache, inflight,
    catalog, timed, runs, playback>>
otherThanCache == <<tokenVars, listVars, handlerVars, seriesVars, call, pool, inflight,
    catalog, timed, runs, playback>>
otherThanInflight == <<tokenVars, listVars, handlerVars, seriesVars, call, pool, kvCache,
    catalog, timed, runs, playback>>
otherThanCatalog == <<tokenVars, listVars, handlerVars, seriesVars, call, pool, kvCache,
    inflight, timed, runs, playback>>
otherThanTimed == <<tokenVars, listVars, handlerVars, seriesVars, call, pool, kvCache,
    inflight, catalog, runs, playback>>
otherThanRuns == <<tokenVars, listVars, handlerVars, seriesVars, call, pool, kvCache,
    inflight, catalog, timed, playback>>
otherThanPlayback == <<tokenVars, listVars, handlerVars, seriesVars, call, pool, kvCache,
    inflight, catalog, timed, runs>>

----------------------------------------------------------------------------
(* Bounds of the model *)

MaxClock == 90000
MaxTokens == 2

\* Clock advances the model takes, in ms.
Steps == {30000}

\* Lifetimes (s) the token endpoint reports as expires_in; 0 is a reply
\* that carries no expires_in.
Lifetimes == {0, 20, 70}

Callers == {1, 2}

\* Listing: the longest page, the requests the log keeps, the accumulator
\* size at which the model stops following a listing.
MaxPageLen == 1
MaxRequests == 4
MaxFiles == 6

\* Handlers: the requests one run of the model handles.
MaxHandled == 2

\* Series: the files a folder listing holds.
MaxListing == 3

\* Calls of the remote API: the calls one run follows, the seconds its clock
\* runs, the longest Retry-After the remote names.
MaxCalls == 2
MaxCallClock == 3
MaxRetryAfter == 2

\* Credential pool: the identities it can hold, the acquisitions one run makes.
MaxIdentities == 3
MaxAcquires == 2

\* kvCache on its own: the operations one run makes, the longest ex (s).
MaxCacheOps == 3
MaxTtl == 2

\* Requests in flight together: the files of the folder they ask for, the
\* tokens the token endpoint issues meanwhile.
MaxInflightFiles == 3
MaxInflightTokens == 2

\* Catalog order: the latest createdTime a file can have.
MaxCreated == 2

\* The files the listing of a request under the timeout returns.
MaxTimedFiles == 2

\* The requests followed in two runs.
MaxRuns == 1

\* The playback requests followed.
MaxPlaybacks == 3

\* Entity ids the remote lists, and the next-page cursors it hands out.
FileIds == {1, 2}
Cursors == {1, 2}

----------------------------------------------------------------------------
(* Program constants *)

SafetyMs == 60000          \* "- 60000" in getAccessToken
DefaultLifetime == 3599    \* "data.expires_in || 3599"
MarginMs == 30 * 1000      \* the 30 s safety margin promised for handed-out tokens

NullCache == [token |-> 0, exp |-> 0]
NoCall == [old |-> 0, stale |-> FALSE, fresh |-> FALSE, seen |-> 0, token |-> 0,
           at |-> 0, fromCache |-> FALSE, expiresIn |-> 0]

\* The listing variables while no listing runs.
ListIdle ==
    /\ remote = <<>>
    /\ allFiles = <<>>
    /\ pageToken = 0
    /\ lpc = "idle"
    /\ sent = <<>>
    /\ lfail = 0

\* The series variables while no series is built.
SeriesIdle ==
    /\ folder = <<>>
    /\ contents = <<>>
    /\ beneath = <<>>
    /\ metaVideos = <<>>
    /\ mpc = "idle"

\* No call of the remote API is followed, no credential pool either.
CallIdle ==
    call = <<>> /\ pool = <<>> /\ kvCache = <<>> /\ inflight = <<>> /\ catalog = <<>>

\* No call of the remote API is followed.
NoCallYet == call = <<>>

\* No request is followed under the timeout, in two runs, or through playback.
LaterIdle == timed = <<>> /\ runs = <<>> /\ playback = <<>>

\* The handler variables while no request is handled.
HandlersIdle ==
    /\ revision = "v1.1.4"
    /\ backend = "mock"
    /\ kv = <<>>
    /\ last = <<>>
    /\ handled = 0

----------------------------------------------------------------------------
(* getAccessToken *)

\* (data.expires_in || 3599): a missing (or zero) lifetime reads as 3599.
EffectiveLifetime(expiresIn) == IF expiresIn = 0 THEN DefaultLifetime ELSE expiresIn

ExpNoMargin(t, expiresIn) == t + EffectiveLifetime(expiresIn) * 1000

\* exp: Date.now() + ((data.expires_in || 3599) * 1000) - 60000
TokenExp(t, expiresIn) == t + EffectiveLifetime(expiresIn) * 1000 - SafetyMs

CacheFreshAlways(cache, t) == cache.token # 0

CacheFreshNever(cache, t) == FALSE

\* if (accessTokenCache.token && Date.now() < accessTokenCache.exp)
CacheFresh(cache, t) == cache.token # 0 /\ t < cache.exp

\* The cached token is within the promised margin of its real expiry, or past it.
WithinMargin(cache, t) == cache.token # 0 /\ t >= realExp[cache.token] - MarginMs

\* The cached token's real expiry is more than the safety margin away.
FarFromExpiry(cache, t) == cache.token # 0 /\ realExp[cache.token] - t > SafetyMs

\* A call: the cached token while it is fresh, otherwise the exchange request
\* is sent and the call waits for the reply.
GetAccessTokenCall(c) ==
    /\ tpc[c] = "idle"
    /\ IF CacheFresh(accessTokenCache, now)
       THEN /\ tpc' = [tpc EXCEPT ![c] = "returned"]
            /\ tcall' = [tcall EXCEPT ![c] =
                  [old |-> accessTokenCache.token,
                   stale |-> WithinMargin(accessTokenCache, now),
                   fresh |-> FarFromExpiry(accessTokenCache, now),
                   seen |-> issued, token |-> accessTokenCache.token,
                   at |-> now, fromCache |-> TRUE, expiresIn |-> 0]]
       ELSE /\ tpc' = [tpc EXCEPT ![c] = "fetching"]
            /\ tcall' = [tcall EXCEPT ![c] =
                  [NoCall EXCEPT !.old = accessTokenCache.token,
                                 !.stale = WithinMargin(accessTokenCache, now),
                                 !.fresh = FarFromExpiry(accessTokenCache, now),
                                 !.seen = issued]]
    /\ UNCHANGED <<now, accessTokenCache, issued, realExp>>
    /\ UNCHANGED otherThanToken

\* The endpoint answers 2xx with a token: it is cached and returned.
GetAccessTokenReplyOk(c) ==
    /\ tpc[c] = "fetching"
    /\ issued < MaxTokens
    /\ \E expiresIn \in Lifetimes :
          /\ issued' = issued + 1
          /\ realExp' = Append(realExp, now + EffectiveLifetime(expiresIn) * 1000)
          /\ accessTokenCache' = [token |-> issued + 1, exp |-> TokenExp(now, expiresIn)]
          /\ tcall' = [tcall EXCEPT ![c].token = issued + 1, ![c].at = now,
                                    ![c].fromCache = FALSE, ![c].expiresIn = expiresIn]
    /\ tpc' = [tpc EXCEPT ![c] = "returned"]
    /\ UNCHANGED now
    /\ UNCHANGED otherThanToken

CaughtKeeps(cache) == cache

\* catch (error) { ... accessTokenCache = { token: null, exp: 0 }; throw error; }
Caught(cache) == NullCache

\* The endpoint answers non-2xx, the body does not parse, or the transport
\* fails: the catch block empties the cache and rethrows.
GetAccessTokenReplyFail(c) ==
    /\ tpc[c] = "fetching"
    /\ accessTokenCache' = Caught(accessTokenCache)
    /\ tpc' = [tpc EXCEPT ![c] = "threw"]
    /\ UNCHANGED <<now, issued, realExp, tcall>>
    /\ UNCHANGED otherThanToken

\* The caller has used the outcome and may call again.
GetAccessTokenDone(c) ==
    /\ tpc[c] \in {"returned", "threw"}
    /\ tpc' = [tpc EXCEPT ![c] = "idle"]
    /\ tcall' = [tcall EXCEPT ![c] = NoCall]
    /\ UNCHANGED <<now, accessTokenCache, issued, realExp>>
    /\ UNCHANGED otherThanToken

\* Time passes between calls and while an exchange is in flight.
TokenTick ==
    /\ \E d \in Steps : now + d <= MaxClock /\ now' = now + d
    /\ UNCHANGED <<accessTokenCache, issued, realExp, tpc, tcall>>
    /\ UNCHANGED otherThanToken

TokenStart ==
    /\ now = 0
    /\ accessTokenCache = NullCache
    /\ issued = 0
    /\ realExp = <<>>
    /\ tpc = [c \in Callers |-> "idle"]
    /\ tcall = [c \in Callers |-> NoCall]

TokenInit == TokenStart /\ ListIdle /\ HandlersIdle /\ SeriesIdle /\ CallIdle /\ LaterIdle

TokenNext ==
    \/ \E c \in Callers : GetAccessTokenCall(c)
    \/ \E c \in Callers : GetAccessTokenReplyOk(c)
    \/ \E c \in Callers : GetAccessTokenReplyFail(c)
    \/ \E c \in Callers : GetAccessTokenDone(c)
    \/ TokenTick

SpecToken == TokenInit /\ [][TokenNext]_vars

\* C1 (as stated): every token getAccessToken returns, cached or freshly
\* exchanged, has at least 30 seconds left before its real expiry at the
\* moment it is returned.
C1_EveryReturnedTokenHasMargin ==
    \A c \in Callers :
        tpc[c] = "returned" => realExp[tcall[c].token] - tcall[c].at >= MarginMs

\* C1 (amended): a token returned from the cache has more than 60 seconds
\* left before its expiry; a freshly exchanged token is returned with the
\* whole lifetime the endpoint reported (3599 s when it reported none), so
\* it has 30 seconds left only when that lifetime is at least 30 s.
C1_ReturnedTokenMargin ==
    \A c \in Callers :
        tpc[c] = "returned" =>
            LET left == realExp[tcall[c].token] - tcall[c].at IN
            /\ tcall[c].fromCache => left > SafetyMs
            /\ ~tcall[c].fromCache => left = EffectiveLifetime(tcall[c].expiresIn) * 1000
            /\ (~tcall[c].fromCache /\ EffectiveLifetime(tcall[c].expiresIn) * 1000 >= MarginMs)
                  => left >= MarginMs

\* A cached token is returned some time after it was exchanged.
C1_Witness ==
    \E c \in Callers :
        /\ tpc[c] = "returned" /\ tcall[c].fromCache
        /\ tcall[c].at > 0

\* C2: a call made while the cached token is within the safety margin of
\* its expiry, or past it, does not return the cached token: it issues an
\* exchange request and returns the token of that exchange, or fails.
C2_StaleTokenNotReused ==
    \A c \in Callers :
        tcall[c].stale =>
            \/ tpc[c] = "fetching"
            \/ tpc[c] = "threw"
            \/ /\ tpc[c] = "returned"
               /\ ~tcall[c].fromCache
               /\ tcall[c].token > tcall[c].seen
               /\ tcall[c].token # tcall[c].old

\* A call found the cached token within the margin and got a new one.
C2_Witness ==
    \E c \in Callers :
        tcall[c].stale /\ tcall[c].old # 0 /\ tpc[c] = "returned"

----------------------------------------------------------------------------
(* gjson and listAllFiles *)

SeqsUpTo(S, n) == UNION {[1..k -> S] : k \in 0..n}

\* A page of the remote listing: its entities and its nextPageToken (0: none).
Pages == [files : SeqsUpTo(FileIds, MaxPageLen), next : {0} \cup Cursors]

\* The remote listing: the page served for each pageToken (0: first request).
Remotes == [{0} \cup Cursors -> Pages]

\* What can happen to one request of gjson(url):
\*   ok         2xx and the body parses to { files, nextPageToken }
\*   nofiles    2xx and the body parses to a value without files
\*   status     a non-2xx status
\*   transport  fetch rejects
\*   token      getAccessToken throws inside withAuthFetch
\*   badjson    2xx and r.json() rejects
Outcomes == {"ok", "nofiles", "status", "transport", "token", "badjson"}

\* gjson: null for a non-2xx status and for whatever withAuthFetch throws;
\* "return r.json()" leaves the try block before the body is parsed, so a
\* body that does not parse rejects the promise gjson returned.
Gjson(outcome, page) ==
    IF outcome = "ok" THEN [kind |-> "data", hasFiles |-> TRUE, page |-> page]
    ELSE IF outcome = "nofiles" THEN [kind |-> "data", hasFiles |-> FALSE, page |-> page]
    ELSE IF outcome = "badjson" THEN [kind |-> "reject", hasFiles |-> FALSE, page |-> page]
    ELSE [kind |-> "null", hasFiles |-> FALSE, page |-> page]

AccumulateFront(all, files) == files \o all

\* allFiles.push(...data.files)
Accumulate(all, files) == all \o files

\* One pass through the do-while body, from the state st = [allFiles,
\* pageToken, pc] and the outcome of its request.
ListStep(st, rem, outcome) ==
    LET data == Gjson(outcome, rem[st.pageToken]) IN
    IF data.kind = "reject" THEN [st EXCEPT !.pc = "threw"]
    ELSE IF data.kind = "null" \/ ~data.hasFiles THEN [st EXCEPT !.pc = "done"]
    ELSE [allFiles |-> Accumulate(st.allFiles, data.page.files),
          pageToken |-> data.page.next,
          pc |-> IF data.page.next # 0 THEN "request" ELSE "done"]

\* A request of the loop and what listAllFiles does with its reply.
ListRequest ==
    /\ lpc = "request"
    /\ Len(allFiles) + Len(remote[pageToken].files) <= MaxFiles
    /\ \E outcome \in Outcomes :
          LET st == ListStep([allFiles |-> allFiles, pageToken |-> pageToken, pc |-> lpc],
                             remote, outcome) IN
          /\ allFiles' = st.allFiles
          /\ pageToken' = st.pageToken
          /\ lpc' = st.pc
          /\ lfail' = IF outcome = "ok" THEN 0 ELSE
                       IF Len(sent) < MaxRequests THEN Len(sent) + 1 ELSE MaxRequests
    /\ sent' = IF Len(sent) < MaxRequests THEN Append(sent, pageToken) ELSE sent
    /\ UNCHANGED remote
    /\ UNCHANGED otherThanList

\* listAllFiles(queryParams) is called against some remote listing.
ListInit ==
    /\ remote \in Remotes
    /\ allFiles = <<>>
    /\ pageToken = 0
    /\ lpc = "request"
    /\ sent = <<>>
    /\ lfail = 0
    /\ TokenStart
    /\ HandlersIdle
    /\ SeriesIdle
    /\ CallIdle
    /\ LaterIdle

ListNext == ListRequest

SpecList == ListInit /\ [][ListNext]_vars

\* The remote always answers and the loop always takes its next pass.
FairSpecList == SpecList /\ WF_vars(ListRequest)

\* The chain of pages a drain of the remote follows from cursor cur, for at
\* most fuel pages: the entities, the cursors requested, and whether it ends.
RECURSIVE ChainFiles(_, _, _)
ChainFiles(rem, cur, fuel) ==
    IF fuel = 0 THEN <<>>
    ELSE rem[cur].files \o
         (IF rem[cur].next = 0 THEN <<>> ELSE ChainFiles(rem, rem[cur].next, fuel - 1))

RECURSIVE ChainCursors(_, _, _)
ChainCursors(rem, cur, fuel) ==
    IF fuel = 0 THEN <<>>
    ELSE <<cur>> \o
         (IF rem[cur].next = 0 THEN <<>> ELSE ChainCursors(rem, rem[cur].next, fuel - 1))

RECURSIVE ChainEnds(_, _, _)
ChainEnds(rem, cur, fuel) ==
    /\ fuel > 0
    /\ rem[cur].next = 0 \/ ChainEnds(rem, rem[cur].next, fuel - 1)

ChainFuel == Cardinality(Cursors) + 1

\* listAllFiles run to its end: the do-while loop over the outcomes of its
\* successive requests.
RECURSIVE ListRun(_, _, _, _)
ListRun(st, rem, outs, n) ==
    IF st.pc # "request" \/ n > Len(outs)
    THEN [files |-> st.allFiles, pc |-> st.pc, calls |-> n - 1]
    ELSE ListRun(ListStep(st, rem, outs[n]), rem, outs, n + 1)

ListAllFiles(rem, outs) ==
    ListRun([allFiles |-> <<>>, pageToken |-> 0, pc |-> "request"], rem, outs, 1)

----------------------------------------------------------------------------
(* Utilities: parseSeasonEpisode, fileToMeta *)

\* Strings that the program takes apart are sequences of one-character
\* strings; the character classes of the regular expressions are sets.
Digits == {"0", "1", "2", "3", "4", "5", "6", "7", "8", "9"}
Separators == {".", "_", " "}

DigitValue(ch) ==
    CASE ch = "0" -> 0 [] ch = "1" -> 1 [] ch = "2" -> 2 [] ch = "3" -> 3
      [] ch = "4" -> 4 [] ch = "5" -> 5 [] ch = "6" -> 6 [] ch = "7" -> 7
      [] ch = "8" -> 8 [] ch = "9" -> 9

\* parseInt of a run of digits.
RECURSIVE ParseInt(_)
ParseInt(ds) ==
    IF ds = <<>> THEN 0
    ELSE 10 * ParseInt(SubSeq(ds, 1, Len(ds) - 1)) + DigitValue(ds[Len(ds)])

\* One element of a pattern: between min and max characters of a class.
El(class, min, max) == [class |-> class, min |-> min, max |-> max]
Lit(upper, lower) == El({upper, lower}, 1, 1)

\* How many characters of the class stand at pos, counting no more than max.
RECURSIVE RunLength(_, _, _, _)
RunLength(name, pos, class, max) ==
    IF max = 0 \/ pos > Len(name) \/ name[pos] \notin class THEN 0
    ELSE 1 + RunLength(name, pos + 1, class, max - 1)

NoMatch == <<-1>>

\* The match of pat[k..] at pos as the lengths its elements take: every
\* quantifier is greedy and gives characters back, one at a time, when the
\* rest of the pattern fails behind it.
RECURSIVE MatchAt(_, _, _, _)
RECURSIVE TryLength(_, _, _, _, _)

\* Element k took n characters and rest is the match of what follows.
Taken(name, pos, pat, k, n, rest) ==
    IF rest # NoMatch THEN <<n>> \o rest
    ELSE TryLength(name, pos, pat, k, n - 1)

TryLength(name, pos, pat, k, n) ==
    IF n < pat[k].min THEN NoMatch
    ELSE Taken(name, pos, pat, k, n, MatchAt(name, pos + n, pat, k + 1))

MatchAt(name, pos, pat, k) ==
    IF k > Len(pat) THEN <<>>
    ELSE TryLength(name, pos, pat, k, RunLength(name, pos, pat[k].class, pat[k].max))

\* The text that element g of a match at pos takes.
RECURSIVE Offset(_, _)
Offset(lens, g) == IF g = 1 THEN 0 ELSE lens[g - 1] + Offset(lens, g - 1)

Group(name, pos, lens, g) ==
    SubSeq(name, pos + Offset(lens, g), pos + Offset(lens, g) + lens[g] - 1)

\* name.match(pattern): the leftmost match; 0 when there is none.
MatchStart(name, pat) ==
    LET starts == {i \in 1..(Len(name) + 1) : MatchAt(name, i, pat, 1) # NoMatch}
    IN IF starts = {} THEN 0 ELSE CHOOSE i \in starts : \A j \in starts : i <= j

\* /S(\d{1,2})[._ ]?E(\d{1,3})/i
PatternSE == <<Lit("S", "s"), El(Digits, 1, 2), El(Separators, 0, 1),
               Lit("E", "e"), El(Digits, 1, 3)>>

\* /Season[._ ]?(\d{1,2})[._ ]?Episode[._ ]?(\d{1,3})/i
PatternWords ==
    <<Lit("S", "s"), Lit("E", "e"), Lit("A", "a"), Lit("S", "s"), Lit("O", "o"),
      Lit("N", "n"), El(Separators, 0, 1), El(Digits, 1, 2), El(Separators, 0, 1),
      Lit("E", "e"), Lit("P", "p"), Lit("I", "i"), Lit("S", "s"), Lit("O", "o"),
      Lit("D", "d"), Lit("E", "e"), El(Separators, 0, 1), El(Digits, 1, 3)>>

\* /(\d{1,2})x(\d{1,3})/i
PatternX == <<El(Digits, 1, 2), Lit("X", "x"), El(Digits, 1, 3)>>

\* /\[(\d{1,2})\.(\d{1,3})\]/i
PatternBracket == <<El({"["}, 1, 1), El(Digits, 1, 2), El({"."}, 1, 1),
                    El(Digits, 1, 3), El({"]"}, 1, 1)>>

\* /^(\d{1,3})[._ ]/
PatternLeading == <<El(Digits, 1, 3), El(Separators, 1, 1)>>

\* The patterns with <s>x<e> tried first.
PatternsXFirst == << [pat |-> PatternX, s |-> 1, e |-> 3],
                     [pat |-> PatternSE, s |-> 2, e |-> 5],
                     [pat |-> PatternWords, s |-> 8, e |-> 18],
                     [pat |-> PatternBracket, s |-> 2, e |-> 4] >>

\* The patterns in the order tried, each with its season and episode groups.
Patterns == << [pat |-> PatternSE, s |-> 2, e |-> 5],
               [pat |-> PatternWords, s |-> 8, e |-> 18],
               [pat |-> PatternX, s |-> 1, e |-> 3],
               [pat |-> PatternBracket, s |-> 2, e |-> 4] >>

NotParsed == [matched |-> FALSE, season |-> 0, episode |-> 0]

RECURSIVE FirstPattern(_, _)
FirstPattern(name, k) ==
    IF k > Len(Patterns) THEN NotParsed
    ELSE LET at == MatchStart(name, Patterns[k].pat) IN
         IF at = 0 THEN FirstPattern(name, k + 1)
         ELSE LET lens == MatchAt(name, at, Patterns[k].pat, 1) IN
              [matched |-> TRUE,
               season |-> ParseInt(Group(name, at, lens, Patterns[k].s)),
               episode |-> ParseInt(Group(name, at, lens, Patterns[k].e))]

\* parseSeasonEpisode(name); matched FALSE is the null it returns.
parseSeasonEpisode(name) ==
    LET found == FirstPattern(name, 1) IN
    IF found.matched THEN found
    ELSE LET lens == MatchAt(name, 1, PatternLeading, 1) IN
         IF lens = NoMatch THEN NotParsed
         ELSE [matched |-> TRUE, season |-> 1,
               episode |-> ParseInt(Group(name, 1, lens, 1))]

FOLDER_MIME == "application/vnd.google-apps.folder"

\* The entities the remote lists: 1 is a video, 2 a folder.
FileNode(f) ==
    IF f = 1
    THEN [id |-> "V1", mimeType |-> "video/mp4",
          name |-> <<"S", "0", "1", "E", "0", "2", ".", "m", "k", "v">>]
    ELSE [id |-> "F2", mimeType |-> FOLDER_MIME,
          name |-> <<"S", "e", "a", "s", "o", "n", " ", "1">>]

MapSeq(Op(_), xs) == [i \in 1..Len(xs) |-> Op(xs[i])]

\* fileToMeta: the id and type of a catalog item follow the mimeType.
fileToMeta(file) ==
    [id |-> IF file.mimeType = FOLDER_MIME THEN <<"gdrive-folder:", file.id>>
            ELSE <<"gdrive:", file.id>>,
     type |-> IF file.mimeType = FOLDER_MIME THEN "series" ELSE "movie",
     name |-> file.name]

\* f.mimeType && f.mimeType.startsWith('video/')
IsVideo(file) == file.mimeType = "video/mp4"

\* videos.map((file, index) => ...): the parsed pair, else season 1 and the
\* position among the videos.
Numbered(file, index, parsed) ==
    [id |-> <<"gdrive:", file.id>>, title |-> file.name,
     season |-> IF parsed.matched THEN parsed.season ELSE 1,
     episode |-> IF parsed.matched THEN parsed.episode ELSE index]

Episode(file, index) == Numbered(file, index, parseSeasonEpisode(file.name))

\* The comparison that puts an entry before its equals.
EpisodeNotAfter(a, b) ==
    a.season < b.season \/ (a.season = b.season /\ a.episode <= b.episode)

\* (a, b) => a.season - b.season || a.episode - b.episode
EpisodeBefore(a, b) ==
    a.season < b.season \/ (a.season = b.season /\ a.episode < b.episode)

\* Array.prototype.sort is stable: an entry goes behind every entry that
\* does not sort after it.
RECURSIVE InsertEpisode(_, _)
InsertEpisode(sorted, e) ==
    IF sorted = <<>> THEN <<e>>
    ELSE IF EpisodeBefore(e, sorted[Len(sorted)])
         THEN Append(InsertEpisode(SubSeq(sorted, 1, Len(sorted) - 1), e),
                     sorted[Len(sorted)])
         ELSE Append(sorted, e)

RECURSIVE SortEpisodes(_)
SortEpisodes(es) ==
    IF es = <<>> THEN <<>>
    ELSE InsertEpisode(SortEpisodes(SubSeq(es, 1, Len(es) - 1)), es[Len(es)])

----------------------------------------------------------------------------
(* kvCache *)

CONFIG_listCacheTtl == 300
CONFIG_metaCacheTtl == 1800

NoRecord == [present |-> FALSE]

\* kvCache.get(key): the Redis client returns the stored value or null and
\* may throw; the fallback is { get: async () => null }.
CacheGet(b, kvs, key) ==
    IF b = "throwing" THEN [kind |-> "throw"]
    ELSE IF b = "mock" \/ ~kvs[key].present THEN [kind |-> "miss"]
    ELSE [kind |-> "hit", record |-> kvs[key]]

\* try { cached = await kvCache.get(cacheKey) } catch (e) { console.error }
TryGet(b, kvs, key) ==
    LET got == CacheGet(b, kvs, key) IN
    IF got.kind = "throw" THEN [kind |-> "miss"] ELSE got

\* kvCache.set(key, value, { ex }): the fallback is { set: async () => {} }.
CacheSet(b, kvs, key, record) ==
    IF b = "throwing" THEN [threw |-> TRUE, kv |-> kvs]
    ELSE IF b = "mock" THEN [threw |-> FALSE, kv |-> kvs]
    ELSE [threw |-> FALSE, kv |-> [kvs EXCEPT ![key] = record]]

\* try { await kvCache.set(...) } catch (e) { console.error }
TrySet(b, kvs, key, record) ==
    [threw |-> FALSE, kv |-> CacheSet(b, kvs, key, record).kv]

----------------------------------------------------------------------------
(* Handlers *)

Letters == {"a", "b", "c", "d", "e", "f", "g", "h", "i", "j", "k", "l", "m",
            "n", "o", "p", "q", "r", "s", "t", "u", "v", "w", "x", "y", "z",
            "A", "B", "C", "D", "E", "F", "G", "H", "I", "J", "K", "L", "M",
            "N", "O", "P", "Q", "R", "S", "T", "U", "V", "W", "X", "Y", "Z"}

IsAlnum(ch) == ch \in Letters \cup Digits

\* search.replace(/[^a-zA-Z0-9]/g, '')
CleanSearch(search) == SelectSeq(search, IsAlnum)

\* An id is the sequence of its pieces, the prefix with its colon first;
\* a search is a sequence of characters, empty when the route has none.
RECENTS == <<"gdrive_recents">>
SEARCH == <<"gdrive_search">>
ROOT1 == <<"gdrive-root:", "F1">>
FOLDER1 == <<"gdrive-folder:", "F1">>
MOVIE1 == <<"gdrive:", "V1">>

CatalogRequests ==
    {[id |-> SEARCH, search |-> <<"a">>],
     [id |-> SEARCH, search |-> <<"a", "-">>],
     [id |-> SEARCH, search |-> <<"-">>],
     [id |-> SEARCH, search |-> <<>>],
     [id |-> RECENTS, search |-> <<>>],
     [id |-> ROOT1, search |-> <<>>]}

MetaIds == {FOLDER1, MOVIE1, RECENTS}
StreamIds == {MOVIE1, RECENTS}
MediaIds == {<<"V1">>}

\* id.split(':')[1]; <<>> is undefined.
SplitItem(id) == IF Len(id) >= 2 THEN <<id[2]>> ELSE <<>>

IsFolderId(id) == id[1] \in {"gdrive-root:", "gdrive-folder:"}

\* `catalog:${cleanSearch ? `search-${cleanSearch}` : id}`
CatalogKey(req) ==
    LET cleanSearch == CleanSearch(req.search) IN
    <<"catalog:">> \o (IF cleanSearch # <<>> THEN <<"search-">> \o cleanSearch ELSE req.id)

\* `meta:${id}`
MetaKey(id) == <<"meta:">> \o id

Keys == {CatalogKey(r) : r \in CatalogRequests} \cup {MetaKey(id) : id \in MetaIds}

\* The q of the listing handleCatalog makes; <<>> when it makes none.
CatalogQuery(req) ==
    IF req.search # <<>> THEN <<"name contains">> \o req.search
    ELSE IF req.id = RECENTS THEN <<"mimeType contains 'video/'">>
    ELSE IF IsFolderId(req.id) THEN SplitItem(req.id) \o <<"in parents">>
    ELSE <<>>

\* The remote listings the handlers meet: an empty folder, one page, two pages.
HRemotes ==
    {[c \in {0} \cup Cursors |-> [files |-> <<>>, next |-> 0]],
     [c \in {0} \cup Cursors |-> [files |-> <<1>>, next |-> 0]],
     [c \in {0} \cup Cursors |->
         IF c = 0 THEN [files |-> <<1>>, next |-> 1] ELSE [files |-> <<2>>, next |-> 0]]}

\* What listAllFiles can come to over them: the entities, whether it
\* returned ("done") or threw, the requests it issued, whether the listing
\* was cut short by a failed request, and whether getAccessToken threw for
\* one of them.
ListOutcome(run, outs) ==
    [files |-> run.files, pc |-> run.pc, calls |-> run.calls,
     failed |-> \E n \in 1..run.calls : outs[n] # "ok",
     token |-> \E n \in 1..run.calls : outs[n] = "token"]

ListResults ==
    {ListOutcome(ListAllFiles(rem, outs), outs) :
     rem \in HRemotes, outs \in [1..2 -> Outcomes]}

\* The outcomes of a request for one entity (gjson(API.DRIVE_FILE(...))).
EntityOutcomes == Outcomes \ {"nofiles"}

\* The outcomes of fetch(API.DRIVE_MEDIA(...)): 2xx, a non-2xx status whose
\* text reads or does not, a transport error.
MediaOutcomes == {"ok", "status", "statusNoText", "transport"}

\* A handler that threw: nothing was sent.
Escaped(kvs, calls) ==
    [status |-> 0, body |-> <<>>, calls |-> calls, kv |-> kvs, hit |-> FALSE]

Sent(status, body, calls, kvs, hit) ==
    [status |-> status, body |-> body, calls |-> calls, kv |-> kvs, hit |-> hit]

\* The reply after kvCache.set returned or threw.
Stored(status, body, calls, kvs, stored) ==
    IF stored.threw THEN Escaped(kvs, calls)
    ELSE Sent(status, body, calls, stored.kv, FALSE)

\* const videos = files.filter(isVideo).map(...).sort(...)
EpisodesOf(videos) ==
    SortEpisodes([i \in 1..Len(videos) |-> Episode(videos[i], i)])

SeriesVideos(files) == EpisodesOf(SelectSeq(MapSeq(FileNode, files), IsVideo))

\* handleCatalog with kvCache.set moved in front of the listing's catch.
CatalogAnswerStoresFailure(b, kvs, req, lr, cached, lists, calls, files, metas) ==
    IF cached.kind = "hit" THEN Sent(200, cached.record.value, 0, kvs, TRUE)
    ELSE IF lists /\ lr.pc = "threw"
         THEN Sent(500, <<>>, calls,
                   TrySet(b, kvs, CatalogKey(req),
                          [present |-> TRUE, value |-> <<>>, ex |-> CONFIG_listCacheTtl,
                           query |-> CatalogQuery(req),
                           emptyListing |-> TRUE, failedListing |-> TRUE]).kv,
                   FALSE)
    ELSE Sent(200, metas, calls, kvs, FALSE)

\* handleCatalog, over backend b holding kvs, for the listing outcome lr.
CatalogAnswer(b, kvs, req, lr, cached, lists, calls, files, metas) ==
    IF cached.kind = "hit" THEN Sent(200, cached.record.value, 0, kvs, TRUE)
    ELSE IF lists /\ lr.pc = "threw" THEN Sent(500, <<>>, calls, kvs, FALSE)
    ELSE IF metas = <<>> THEN Sent(200, metas, calls, kvs, FALSE)
    ELSE Stored(200, metas, calls, kvs,
                TrySet(b, kvs, CatalogKey(req),
                       [present |-> TRUE, value |-> metas, ex |-> CONFIG_listCacheTtl,
                        query |-> CatalogQuery(req),
                        emptyListing |-> files = <<>>, failedListing |-> lr.failed]))

CatalogListed(b, kvs, req, lr, lists, files) ==
    CatalogAnswer(b, kvs, req, lr, TryGet(b, kvs, CatalogKey(req)), lists,
                  IF lists THEN lr.calls ELSE 0, files,
                  MapSeq(fileToMeta, MapSeq(FileNode, files)))

CatalogResult(b, kvs, req, lr) ==
    CatalogListed(b, kvs, req, lr, CatalogQuery(req) # <<>>,
                  IF CatalogQuery(req) # <<>> THEN lr.files ELSE <<>>)

\* handleMeta without "if (!folder)" and "if (!file)".
MetaAnswerUnchecked(b, kvs, id, fo, lr, cached, calls, meta) ==
    IF SplitItem(id) = <<>> THEN Sent(404, <<"Not Found">>, 0, kvs, FALSE)
    ELSE IF cached.kind = "hit" THEN Sent(200, cached.record.value, 0, kvs, TRUE)
    ELSE IF Gjson(fo, <<>>).kind = "reject" \/ (IsFolderId(id) /\ lr.pc = "threw")
         THEN Escaped(kvs, calls)
    ELSE Stored(200, meta, calls, kvs,
                TrySet(b, kvs, MetaKey(id),
                       [present |-> TRUE, value |-> meta, ex |-> CONFIG_metaCacheTtl,
                        query |-> id,
                        emptyListing |-> IsFolderId(id) /\ lr.files = <<>>,
                        failedListing |-> IsFolderId(id) /\ lr.failed]))

\* handleMeta, for the outcome fo of the entity request and lr of the
\* listing that Promise.all runs beside it.
MetaAnswer(b, kvs, id, fo, lr, cached, calls, meta) ==
    IF SplitItem(id) = <<>> THEN Sent(404, <<"Not Found">>, 0, kvs, FALSE)
    ELSE IF cached.kind = "hit" THEN Sent(200, cached.record.value, 0, kvs, TRUE)
    ELSE IF Gjson(fo, <<>>).kind = "reject" \/ (IsFolderId(id) /\ lr.pc = "threw")
         THEN Escaped(kvs, calls)
    ELSE IF Gjson(fo, <<>>).kind = "null" THEN Sent(404, <<"Not Found">>, calls, kvs, FALSE)
    ELSE Stored(200, meta, calls, kvs, 
                TrySet(b, kvs, MetaKey(id),
                       [present |-> TRUE, value |-> meta, ex |-> CONFIG_metaCacheTtl,
                        query |-> id,
                        emptyListing |-> IsFolderId(id) /\ lr.files = <<>>,
                        failedListing |-> IsFolderId(id) /\ lr.failed]))

MetaResult(b, kvs, id, fo, lr) ==
    MetaAnswer(b, kvs, id, fo, lr, TryGet(b, kvs, MetaKey(id)),
               IF IsFolderId(id) THEN 1 + lr.calls ELSE 1,
               IF IsFolderId(id)
               THEN [id |-> id, type |-> "series", videos |-> SeriesVideos(lr.files)]
               ELSE [id |-> id, type |-> "movie", videos |-> <<>>])

----------------------------------------------------------------------------
(* Revision v1.1.0: gjson, listAllFiles, handleMeta *)

\* gjson with no try block: withAuthFetch rejects when getAccessToken or
\* fetch does, and r.json() when the body does not parse.
Gjson_v110(outcome, page) ==
    IF outcome = "ok" THEN [kind |-> "data", hasFiles |-> TRUE, page |-> page]
    ELSE IF outcome = "nofiles" THEN [kind |-> "data", hasFiles |-> FALSE, page |-> page]
    ELSE IF outcome = "status" THEN [kind |-> "null", hasFiles |-> FALSE, page |-> page]
    ELSE [kind |-> "reject", hasFiles |-> FALSE, page |-> page]

\* if (!data) break; if (data.files) allFiles = allFiles.concat(data.files)
ListPass_v110(st, data) ==
    IF data.kind = "reject" THEN [st EXCEPT !.pc = "threw"]
    ELSE IF data.kind = "null" THEN [st EXCEPT !.pc = "done"]
    ELSE [allFiles |-> IF data.hasFiles THEN st.allFiles \o data.page.files
                       ELSE st.allFiles,
          pageToken |-> data.page.next,
          pc |-> IF data.page.next # 0 THEN "request" ELSE "done"]

ListStep_v110(st, rem, outcome) ==
    ListPass_v110(st, Gjson_v110(outcome, rem[st.pageToken]))

RECURSIVE ListRun_v110(_, _, _, _)
ListRun_v110(st, rem, outs, n) ==
    IF st.pc # "request" \/ n > Len(outs)
    THEN [files |-> st.allFiles, pc |-> st.pc, calls |-> n - 1]
    ELSE ListRun_v110(ListStep_v110(st, rem, outs[n]), rem, outs, n + 1)

ListAllFiles_v110(rem, outs) ==
    ListRun_v110([allFiles |-> <<>>, pageToken |-> 0, pc |-> "request"], rem, outs, 1)

ListResults_v110 ==
    {ListOutcome(ListAllFiles_v110(rem, outs), outs) :
     rem \in HRemotes, outs \in [1..2 -> Outcomes]}

\* REGEX_SEASON = /S?(\d+)/i and REGEX_EPISODE = /E(\d+)/i over a name.
REGEX_SEASON(name) == <<El({"S", "s"}, 0, 1), El(Digits, 1, Len(name))>>
REGEX_EPISODE(name) == <<Lit("E", "e"), El(Digits, 1, Len(name))>>

\* parseInt(name.match(pattern)[1]), or the fallback without a match.
GroupFrom(name, pat, at, fallback) ==
    IF at = 0 THEN fallback
    ELSE ParseInt(Group(name, at, MatchAt(name, at, pat, 1), 2))

MatchedNumber(name, pat, fallback) ==
    GroupFrom(name, pat, MatchStart(name, pat), fallback)

Episode_v110(file, index) ==
    [id |-> <<"gdrive:", file.id>>, title |-> file.name,
     season |-> MatchedNumber(file.name, REGEX_SEASON(file.name), 1),
     episode |-> MatchedNumber(file.name, REGEX_EPISODE(file.name), index)]

EpisodesOf_v110(videos) == [i \in 1..Len(videos) |-> Episode_v110(videos[i], i)]

SeriesVideos_v110(files) == EpisodesOf_v110(SelectSeq(MapSeq(FileNode, files), IsVideo))

\* extractId = (id, prefix) => id.startsWith(prefix) ? id.split(':')[1] : id;
\* every id of the model begins with "gdrive".
ExtractId_v110(id, prefix) ==
    IF prefix = "gdrive" \/ id[1] = "gdrive-folder:" THEN SplitItem(id) ELSE id

IsFolder_v110(id) == id[1] = "gdrive-folder:"

\* handleMeta of v1.1.0: kvCache.get(...).catch(() => null), then
\* JSON.parse(cached), the requests and kvCache.set with no try block around
\* them; JSON.parse throws on a value that is not JSON (garbled).
MetaAnswer_v110(b, kvs, id, fo, lr, cached, calls, meta) ==
    IF ExtractId_v110(id, IF IsFolder_v110(id) THEN "gdrive-folder" ELSE "gdrive") = <<>>
    THEN Sent(404, <<"Not Found">>, 0, kvs, FALSE)
    ELSE IF cached.kind = "hit" /\ cached.record.garbled THEN Escaped(kvs, 0)
    ELSE IF cached.kind = "hit" THEN Sent(200, cached.record.value, 0, kvs, TRUE)
    ELSE IF Gjson_v110(fo, <<>>).kind = "reject" \/ (IsFolder_v110(id) /\ lr.pc = "threw")
         THEN Escaped(kvs, calls)
    ELSE IF Gjson_v110(fo, <<>>).kind = "null"
         THEN Sent(404, <<"Not Found">>, calls, kvs, FALSE)
    ELSE Stored(200, meta, calls, kvs,
                CacheSet(b, kvs, MetaKey(id),
                         [present |-> TRUE, value |-> meta, ex |-> CONFIG_metaCacheTtl,
                          query |-> id, garbled |-> FALSE,
                          emptyListing |-> IsFolder_v110(id) /\ lr.files = <<>>,
                          failedListing |-> IsFolder_v110(id) /\ lr.failed]))

MetaResult_v110(b, kvs, id, fo, lr) ==
    MetaAnswer_v110(b, kvs, id, fo, lr, TryGet(b, kvs, MetaKey(id)),
                    IF IsFolder_v110(id) THEN 1 + lr.calls ELSE 1,
                    IF IsFolder_v110(id)
                    THEN [id |-> id, type |-> "series", videos |-> SeriesVideos_v110(lr.files)]
                    ELSE [id |-> id, type |-> "movie", videos |-> <<>>])

\* handleStream: the entity request, getAccessToken (tokenOk), and the
\* subtitle listing inside its try block when the file has a parent.
StreamResult(kvs, id, fo, tokenOk, hasParent, lr) ==
    LET file == Gjson(fo, <<>>)
        subFiles == IF hasParent /\ lr.pc = "done" THEN lr.files ELSE <<>>
        subs == [i \in 1..Len(subFiles) |-> <<"gdrive-sub:", FileNode(subFiles[i]).id>>]
        calls == 1 + (IF hasParent THEN lr.calls ELSE 0)
    IN IF SplitItem(id) = <<>> THEN Sent(404, <<>>, 0, kvs, FALSE)
       ELSE IF file.kind = "reject" THEN Escaped(kvs, 1)
       ELSE IF file.kind = "null" THEN Sent(404, <<>>, 1, kvs, FALSE)
       ELSE IF ~tokenOk THEN Escaped(kvs, 1)
       ELSE Sent(200, <<[url |-> <<"/playback/">> \o SplitItem(id), subtitles |-> subs]>>,
                 calls, kvs, FALSE)

\* handlePlayback: everything runs inside try; the catch sends 500.
PlaybackResult(kvs, id, tokenOk, mo, driveStatus) ==
    IF ~tokenOk THEN Sent(500, <<"Internal Server Error">>, 0, kvs, FALSE)
    ELSE IF mo = "transport" \/ mo = "statusNoText"
         THEN Sent(500, <<"Internal Server Error">>, 1, kvs, FALSE)
    ELSE Sent(driveStatus, <<"drive">>, 1, kvs, FALSE)

\* handleSubtitles: the same calls with no try block around them.
SubtitlesResult(kvs, id, tokenOk, mo, driveStatus) ==
    IF ~tokenOk THEN Escaped(kvs, 0)
    ELSE IF mo = "transport" \/ mo = "statusNoText" THEN Escaped(kvs, 1)
    ELSE IF mo = "status" THEN Sent(driveStatus, <<"drive">>, 1, kvs, FALSE)
    ELSE Sent(200, <<"drive">>, 1, kvs, FALSE)

\* The revisions of index.js whose handlers are modelled: every handler of
\* v1.1.4, handleMeta of v1.1.0.
Revisions == {"v1.1.4", "v1.1.0"}

\* No listing was made.
NoList == [files |-> <<>>, pc |-> "done", calls |-> 0, failed |-> FALSE, token |-> FALSE]

NoRequest ==
    [kind |-> "none", req |-> <<>>, status |-> 0, body |-> <<>>, calls |-> 0,
     hit |-> FALSE, served |-> <<>>, fo |-> "ok", lr |-> NoList,
     repeat |-> FALSE, prevBody |-> <<>>, aged |-> FALSE, garbled |-> FALSE]

\* What is kept of a handled request: the response (status 0: none was
\* sent), the requests made to the remote API, the query of the record a
\* cache hit served, and the outcomes the handler met.
Handled(kind, req, r, served, fo, lr, repeat) ==
    [kind |-> kind, req |-> req, status |-> r.status, body |-> r.body,
     calls |-> r.calls, hit |-> r.hit, served |-> served, fo |-> fo,
     lr |-> IF r.calls = 0 THEN NoList ELSE lr,
     repeat |-> repeat, prevBody |-> IF repeat THEN last.body ELSE <<>>,
     aged |-> FALSE, garbled |-> FALSE]

\* The handler of v1.1.0 read, under key, a value that JSON.parse rejects.
GarbledRead(kind, key) ==
    /\ revision = "v1.1.0"
    /\ kind = "meta"
    /\ backend = "redis"
    /\ kv[key].present
    /\ kv[key].garbled

\* The handler is through: the store and the record of the request.
Conclude(kind, req, r, key, fo, lr, repeat) ==
    /\ kv' = r.kv
    /\ last' = [Handled(kind, req, r, IF r.hit THEN kv[key].query ELSE <<>>,
                        IF r.calls = 0 THEN "ok" ELSE fo, lr, repeat)
                EXCEPT !.garbled = GarbledRead(kind, key)]
    /\ handled' = handled + 1
    /\ UNCHANGED <<revision, backend>>
    /\ UNCHANGED otherThanHandlers

\* GET /catalog/:type/:id.json and /catalog/:type/:id/search=:search.json
HandleCatalog ==
    /\ revision = "v1.1.4"
    /\ handled < MaxHandled
    /\ \E req \in CatalogRequests, lr \in ListResults :
          Conclude("catalog", req, CatalogResult(backend, kv, req, lr),
                   CatalogKey(req), "ok", lr,
                   /\ last.kind = "catalog" /\ last.req = req /\ ~last.aged
                   /\ last.status = 200 /\ last.body # <<>>)

\* GET /meta/:type/:id.json
HandleMeta ==
    /\ revision = "v1.1.4"
    /\ handled < MaxHandled
    /\ \E id \in MetaIds, fo \in EntityOutcomes, lr \in ListResults :
          Conclude("meta", id, MetaResult(backend, kv, id, fo, lr), MetaKey(id),
                   fo, IF IsFolderId(id) THEN lr ELSE NoList, FALSE)

\* GET /meta/:type/:id.json served by v1.1.0
HandleMeta_v110 ==
    /\ revision = "v1.1.0"
    /\ handled < MaxHandled
    /\ \E id \in MetaIds, fo \in EntityOutcomes, lr \in ListResults_v110 :
          Conclude("meta", id, MetaResult_v110(backend, kv, id, fo, lr), MetaKey(id),
                   fo, IF IsFolder_v110(id) THEN lr ELSE NoList, FALSE)

\* GET /stream/:type/:id.json
HandleStream ==
    /\ revision = "v1.1.4"
    /\ handled < MaxHandled
    /\ \E id \in StreamIds, fo \in EntityOutcomes, tokenOk \in BOOLEAN,
          hasParent \in BOOLEAN, lr \in ListResults :
          Conclude("stream", id, StreamResult(kv, id, fo, tokenOk, hasParent, lr),
                   MetaKey(id), fo, NoList, FALSE)

\* GET /playback/:id
HandlePlayback ==
    /\ revision = "v1.1.4"
    /\ handled < MaxHandled
    /\ \E id \in MediaIds, tokenOk \in BOOLEAN, mo \in MediaOutcomes :
       \E driveStatus \in IF mo = "ok" THEN {200, 206} ELSE {403, 404} :
          Conclude("playback", id, PlaybackResult(kv, id, tokenOk, mo, driveStatus),
                   MetaKey(id), "ok", NoList, FALSE)

\* GET /subtitles/:id
HandleSubtitles ==
    /\ revision = "v1.1.4"
    /\ handled < MaxHandled
    /\ \E id \in MediaIds, tokenOk \in BOOLEAN, mo \in MediaOutcomes :
       \E driveStatus \in IF mo = "ok" THEN {200, 206} ELSE {403, 404} :
          Conclude("subtitles", id, SubtitlesResult(kv, id, tokenOk, mo, driveStatus),
                   MetaKey(id), "ok", NoList, FALSE)

\* The ex of a record runs out: the store drops it.
Expire ==
    /\ \E key \in Keys :
          /\ kv[key].present
          /\ kv' = [kv EXCEPT ![key] = NoRecord]
    /\ last' = [last EXCEPT !.aged = TRUE]
    /\ UNCHANGED <<revision, backend, handled>>
    /\ UNCHANGED otherThanHandlers

\* The value under a key of the store is replaced by one that is not JSON
\* (v1.1.0 stores strings and parses them itself; in v1.1.4 parsing is the
\* client's).
Garble ==
    /\ revision = "v1.1.0"
    /\ \E key \in Keys :
          /\ kv[key].present
          /\ ~kv[key].garbled
          /\ kv' = [kv EXCEPT ![key].garbled = TRUE]
    /\ UNCHANGED <<revision, backend, last, handled>>
    /\ UNCHANGED otherThanHandlers

\* kvCache is the Redis client when the environment names one (it may
\* work or throw), else the fallback.
Init ==
    /\ revision \in Revisions
    /\ backend \in {"redis", "mock", "throwing"}
    /\ kv = [key \in Keys |-> NoRecord]
    /\ last = NoRequest
    /\ handled = 0
    /\ TokenStart
    /\ ListIdle
    /\ SeriesIdle
    /\ CallIdle
    /\ LaterIdle

Next ==
    \/ HandleCatalog
    \/ HandleMeta
    \/ HandleMeta_v110
    \/ HandleStream
    \/ HandlePlayback
    \/ HandleSubtitles
    \/ Expire
    \/ Garble

Spec == Init /\ [][Next]_vars

\* C3: when every page request of a finite chain p1..pn succeeds,
\* listAllFiles returns the concatenation of the pages' entities in page
\* order and has issued exactly n requests, the first without a cursor and
\* each next one with the cursor the page before it returned.
C3_DrainsEveryPageInOrder ==
    (lpc = "done" /\ lfail = 0) =>
        /\ ChainEnds(remote, 0, ChainFuel)
        /\ allFiles = ChainFiles(remote, 0, ChainFuel)
        /\ sent = ChainCursors(remote, 0, ChainFuel)

\* A three-page listing was drained.
C3_Witness ==
    /\ lpc = "done" /\ lfail = 0
    /\ Len(sent) = 3 /\ sent[1] = 0
    /\ Len(allFiles) >= 2 /\ allFiles[1] # allFiles[2]

\* C4: when the request for page k fails in any way, listAllFiles does not
\* throw: it returns the entities of pages 1..k-1.
C4_FailedPageReturnsPartial ==
    lfail > 0 =>
        /\ lpc = "done"
        /\ allFiles = ChainFiles(remote, 0, lfail - 1)

\* C5: listAllFiles terminates whatever the remote does (or the model has
\* stopped following it at MaxFiles entities).
C5_ListTerminates ==
    <>(lpc \in {"done", "threw"}
       \/ Len(allFiles) + Len(remote[pageToken].files) > MaxFiles)

\* What the same request comes to, over the same remote outcomes, with the
\* fallback whose get always misses and whose set does nothing.
MissingCacheAnswer ==
    IF last.kind = "catalog" THEN CatalogResult("mock", kv, last.req, last.lr)
    ELSE IF revision = "v1.1.4" THEN MetaResult("mock", kv, last.req, last.fo, last.lr)
    ELSE MetaResult_v110("mock", kv, last.req, last.fo, last.lr)

\* C6: when kvCache throws on every get and every set, each catalog and
\* meta request is answered as it would be with a cache that always misses
\* and whose writes do nothing: the same status, the same body, the same
\* requests to the remote API, and no exception out of the handler.
C6_ThrowingCacheAnswersAsMiss ==
    (backend = "throwing" /\ last.kind \in {"catalog", "meta"}) =>
        /\ last.status = MissingCacheAnswer.status
        /\ last.body = MissingCacheAnswer.body
        /\ last.calls = MissingCacheAnswer.calls

\* C7: the store never holds a record made from an empty or failed listing:
\* no catalog record with an empty list, and no series record whose episode
\* list is empty because the folder listing failed or came back empty.
C7_NoRecordFromEmptyOrFailedListing ==
    revision = "v1.1.4" =>
        \A key \in Keys :
            kv[key].present =>
                IF key[1] = "catalog:" THEN kv[key].value # <<>>
                ELSE ~(/\ kv[key].value.type = "series"
                       /\ kv[key].value.videos = <<>>
                       /\ kv[key].emptyListing \/ kv[key].failedListing)

\* C8: with the Redis client or with the fallback as kvCache, a catalog
\* request that repeats the one before it, which was answered with a
\* non-empty list less than listCacheTtl ago, gets the same list and makes
\* no request to the remote API.
C8_RepeatedCatalogServedFromCache ==
    (/\ revision = "v1.1.4"
     /\ backend \in {"redis", "mock"}
     /\ last.kind = "catalog"
     /\ last.repeat) =>
        /\ last.status = 200
        /\ last.body = last.prevBody
        /\ last.calls = 0

\* C9: catalog requests whose listing queries differ never share a cache
\* key: a record served from the cache was made by the query of the
\* request it is served to.
C9_CachedCatalogServedToItsQuery ==
    (revision = "v1.1.4" /\ last.kind = "catalog" /\ last.hit) =>
        last.served = CatalogQuery(last.req)

\* C10: whatever fails on the remote side, every catalog, meta, stream,
\* playback and subtitles request is answered with a response the handler
\* sends; no exception leaves the handler.
C10_EveryRequestAnswered ==
    (revision = "v1.1.4" /\ last.kind # "none") => last.status # 0

----------------------------------------------------------------------------
(* handleMeta: the episodes of a series folder *)

\* The children a folder listing can hold, by name and mimeType: names of
\* each pattern, of several patterns, of none, and a subfolder.
Children ==
    {[name |-> <<"S", "0", "1", "E", "0", "2">>,
      mimeType |-> "video/mp4"],
     [name |-> <<"S", "1", "E", "2", " ", "3", "x", "4">>,
      mimeType |-> "video/mp4"],
     [name |-> <<"2", "x", "0", "1">>,
      mimeType |-> "video/mp4"],
     [name |-> <<"0", "7", " ", "-", " ", "I", "n", "t", "r", "o">>,
      mimeType |-> "video/mp4"],
     [name |-> <<"I", "n", "t", "r", "o">>,
      mimeType |-> "video/mp4"],
     [name |-> <<"[", "1", ".", "7", "]">>,
      mimeType |-> "video/mp4"],
     [name |-> <<"S", "e", "a", "s", "o", "n", " ", "2", " ", "E", "p", "i", "s", "o", "d", "e", " ", "1">>,
      mimeType |-> "video/mp4"],
     [name |-> <<"0", "7", " ", "1", "9", "2", "0", "x", "1", "0", "8", "0">>,
      mimeType |-> "video/mp4"],
     [name |-> <<"2", "0", "2", "4", ".", " ", "R", "e", "c", "a", "p">>,
      mimeType |-> "video/mp4"],
     [name |-> <<"0", "7", "-", "I", "n", "t", "r", "o">>,
      mimeType |-> "video/mp4"],
     [name |-> <<"S", "e", "a", "s", "o", "n", " ", "2">>,
      mimeType |-> FOLDER_MIME]}

\* Drive gives every file an id of its own: here its place in the listing.
Listed(kinds) ==
    [i \in 1..Len(kinds) |->
        [id |-> i, name |-> kinds[i].name, mimeType |-> kinds[i].mimeType]]

Listings == UNION {[1..n -> Children] : n \in 0..MaxListing}

\* The names the folder of the request can have.
FolderNames == {<<"S", "e", "a", "s", "o", "n", " ", "2">>,
                <<"S", "h", "o", "w">>}

\* What the remote holds in a listed entry: nothing in a file; in a
\* subfolder no file or one episode, and a listing of it that would succeed
\* or fail.
NoInside == [listing |-> "none", names |-> <<>>]

Insides ==
    {[listing |-> "ok", names |-> <<>>],
     [listing |-> "ok", names |-> <<<<"S", "0", "2", "E", "0", "1">>>>],
     [listing |-> "fails", names |-> <<<<"S", "0", "2", "E", "0", "1">>>>]}

InsidesOf(file) == IF file.mimeType = FOLDER_MIME THEN Insides ELSE {NoInside}

\* folder and allContents have come back from Promise.all.
SeriesInit ==
    /\ folder \in {[name |-> n] : n \in FolderNames}
    /\ \E kinds \in Listings : contents = Listed(kinds)
    /\ beneath \in {b \in [1..Len(contents) -> Insides \cup {NoInside}] :
                       \A i \in 1..Len(contents) : b[i] \in InsidesOf(contents[i])}
    /\ metaVideos = <<>>
    /\ mpc = "listed"
    /\ TokenStart
    /\ ListIdle
    /\ HandlersIdle
    /\ CallIdle
    /\ LaterIdle

\* const videos = allContents.filter(...); meta.videos = videos.map(...).sort(...)
BuildVideos ==
    /\ mpc = "listed"
    /\ metaVideos' = EpisodesOf(SelectSeq(contents, IsVideo))
    /\ mpc' = "built"
    /\ UNCHANGED <<folder, contents, beneath>>
    /\ UNCHANGED otherThanSeries

SeriesNext == BuildVideos

SpecSeries == SeriesInit /\ [][SeriesNext]_vars

\* The place in the listing of the file an episode was made from.
Origin(e) == e.id[2]

\* C11: meta.videos is in non-decreasing (season, episode) order, and
\* entries with the same (season, episode) stand in the order in which the
\* listing returned their files.
C11_EpisodesSortedStable ==
    mpc = "built" =>
        \A i, j \in 1..Len(metaVideos) :
            i < j =>
                /\ metaVideos[i].season <= metaVideos[j].season
                /\ (metaVideos[i].season = metaVideos[j].season
                    => metaVideos[i].episode <= metaVideos[j].episode)
                /\ (metaVideos[i].season = metaVideos[j].season
                    /\ metaVideos[i].episode = metaVideos[j].episode)
                   => Origin(metaVideos[i]) < Origin(metaVideos[j])

\* Three episodes were built, two of them with the same numbers, from a
\* listing that did not hold them in sorted order.
C11_Witness ==
    /\ mpc = "built"
    /\ Len(metaVideos) = 3
    /\ metaVideos[1].season = metaVideos[2].season /\ metaVideos[1].episode = metaVideos[2].episode
    /\ Origin(metaVideos[3]) = 1

\* Whether a pattern matches somewhere in a name, and the pair of numbers
\* its groups s and e then hold.
Found(name, pat) == MatchStart(name, pat) # 0

PairAt(name, pat, at, s, e) ==
    <<ParseInt(Group(name, at, MatchAt(name, at, pat, 1), s)),
      ParseInt(Group(name, at, MatchAt(name, at, pat, 1), e))>>

PairOf(name, pat, s, e) == PairAt(name, pat, MatchStart(name, pat), s, e)

LeadingFound(name) == MatchAt(name, 1, PatternLeading, 1) # NoMatch

\* The pair the earliest matching pattern gives, in the order S<s>E<e>,
\* Season <s> Episode <e>, <s>x<e>, [<s>.<e>], leading number.
EarliestPair(name) ==
    IF Found(name, PatternSE) THEN PairOf(name, PatternSE, 2, 5)
    ELSE IF Found(name, PatternWords) THEN PairOf(name, PatternWords, 8, 18)
    ELSE IF Found(name, PatternX) THEN PairOf(name, PatternX, 1, 3)
    ELSE IF Found(name, PatternBracket) THEN PairOf(name, PatternBracket, 2, 4)
    ELSE <<1, PairAt(name, PatternLeading, 1, 1, 1)[1]>>

AnyFound(name) ==
    \/ Found(name, PatternSE) \/ Found(name, PatternWords)
    \/ Found(name, PatternX) \/ Found(name, PatternBracket)
    \/ LeadingFound(name)

\* C12: an entry whose name matches any pattern carries the pair of the
\* earliest pattern that matches it, in the fixed order of the patterns,
\* and not its position among the videos.
C12_EarliestPatternGivesThePair ==
    mpc = "built" =>
        \A i \in 1..Len(metaVideos) :
            AnyFound(metaVideos[i].title) =>
                <<metaVideos[i].season, metaVideos[i].episode>>
                    = EarliestPair(metaVideos[i].title)

\* A name that matches S<s>E<e> and <s>x<e> was numbered by the first, and
\* a name with a leading number by that number, at other positions.
C12_Witness ==
    /\ mpc = "built"
    /\ Len(metaVideos) = 3
    /\ \E i \in 1..3 :
          /\ metaVideos[i].title = <<"S", "1", "E", "2", " ", "3", "x", "4">>
          /\ metaVideos[i].season = 1 /\ metaVideos[i].episode = 2
          /\ Origin(metaVideos[i]) = 3
    /\ \E i \in 1..3 :
          /\ metaVideos[i].title = <<"0", "7", " ", "-", " ", "I", "n", "t", "r", "o">>
          /\ metaVideos[i].episode = 7

\* The digits a name starts with, and whether a separator follows them.
LeadingDigits(name) == RunLength(name, 1, Digits, Len(name))

LeadingToken(name) ==
    /\ LeadingDigits(name) >= 1
    /\ LeadingDigits(name) < Len(name)
    /\ name[LeadingDigits(name) + 1] \in Separators

NoSeasonMarker(name) ==
    /\ ~Found(name, PatternSE) /\ ~Found(name, PatternWords)
    /\ ~Found(name, PatternX) /\ ~Found(name, PatternBracket)

\* C13: an entry whose name starts with a numeric token followed by a
\* separator, and holds no season marker, has season 1 and that number as
\* its episode, wherever its file stands in the folder.
C13_LeadingNumberIsTheEpisode ==
    mpc = "built" =>
        \A i \in 1..Len(metaVideos) :
            (LeadingToken(metaVideos[i].title) /\ NoSeasonMarker(metaVideos[i].title)) =>
                /\ metaVideos[i].season = 1
                /\ metaVideos[i].episode
                     = ParseInt(SubSeq(metaVideos[i].title, 1,
                                      LeadingDigits(metaVideos[i].title)))

\* /season[._ ]?(\d+)/i: the N of a folder named "Season N".
PatternSeasonFolder ==
    <<Lit("S", "s"), Lit("E", "e"), Lit("A", "a"), Lit("S", "s"), Lit("O", "o"),
      Lit("N", "n"), El(Separators, 0, 1), El(Digits, 1, 2)>>

\* The season a file inherits from its folder: N for "Season N", else the
\* season of the root, 1.
InheritedSeason(name) ==
    IF Found(name, PatternSeasonFolder)
    THEN PairOf(name, PatternSeasonFolder, 8, 8)[1]
    ELSE 1

\* The 1-indexed place of listed file f among the playable files.
PlayablePlace(f) == Len(SelectSeq(SubSeq(contents, 1, f), IsVideo))

\* C14: a playable file whose name matches no pattern has the season its
\* folder gives it (N for a folder named "Season N", else 1) and, as its
\* episode, its place among the playable files of the folder.
C14_UnmatchedNameIsNumberedByFolder ==
    mpc = "built" =>
        \A i \in 1..Len(metaVideos) :
            ~AnyFound(metaVideos[i].title) =>
                /\ metaVideos[i].season = InheritedSeason(folder.name)
                /\ metaVideos[i].episode = PlayablePlace(Origin(metaVideos[i]))

\* A meta request asked the remote for its folder or file and the remote
\* answered that there is none; the listing beside it came back.
EntityMissing ==
    /\ last.kind = "meta"
    /\ last.calls > 0
    /\ last.fo = "status"
    /\ last.lr.pc = "done"

TokenFailed ==
    /\ last.kind \in {"catalog", "meta", "stream"}
    /\ last.calls > 0
    /\ last.fo = "token" \/ last.lr.token

\* C16: a catalog, meta or stream request during which token acquisition
\* failed is answered with an upstream-failure error (a 5xx status), never
\* with 404 Not Found and never with a successful empty result.
C16_TokenFailureIsUpstreamFailure ==
    TokenFailed => last.status >= 500

----------------------------------------------------------------------------
(* One call of the remote API: getAccessToken, fetch, and what comes back *)

\* Who calls: gjson through withAuthFetch (an entity, a page of a listing),
\* handlePlayback and handleSubtitles with a fetch of their own.
Vias == {"gjson", "playback", "subtitles"}

\* The tokens getAccessToken can return.
CallTokens == {1, 2}

\* The statuses the remote answers with.
Statuses == {200, 403, 404, 429, 500}

NoResponse == [kind |-> "none", status |-> 0, retryAfter |-> 0, at |-> 0]

\* What fetch can come to at instant at: a response, a 429 naming the
\* seconds to wait, or a transport error (fetch throws).
Responses(at) ==
    {[kind |-> "http", status |-> st, retryAfter |-> 0, at |-> at] : st \in Statuses \ {429}}
    \cup {[kind |-> "http", status |-> 429, retryAfter |-> ra, at |-> at] :
          ra \in 1..MaxRetryAfter}
    \cup {[kind |-> "threw", status |-> 0, retryAfter |-> 0, at |-> at]}

\* r.ok
Ok(r) == r.status \in 200..299

\* The next step of the log of acquisitions and requests.
NextSeq(c) == Len(c.acquired) + Len(c.requests) + 1

\* The requests sent for call n.
RequestsOf(c, n) == SelectSeq(c.requests, LAMBDA q : q.call = n)

BearerKept(c) ==
    IF c.requests = <<>> THEN c.accessToken ELSE c.requests[1].bearer

\* 'Authorization': `Bearer ${accessToken}`
Bearer(c) == c.accessToken

ReturnedBare(r) == NoResponse

\* return fetch(url, { ...init, headers }); const driveRes = await fetch(...)
Returned(r) == r

\* How a throw of getAccessToken or fetch ends the call: gjson catches it
\* and returns null, handlePlayback's catch sends 500, handleSubtitles
\* lets it escape.
Thrown(via) ==
    IF via = "gjson" THEN "null"
    ELSE IF via = "playback" THEN "500"
    ELSE "threw"

\* What the caller makes of the response: gjson returns the body or null,
\* the two handlers send the status on.
Decided(via, r) ==
    IF via = "gjson" THEN (IF Ok(r) THEN "data" ELSE "null")
    ELSE "forwarded"

CallInit ==
    /\ call = [n |-> 0, via |-> "none", pc |-> "idle", clock |-> 0,
               accessToken |-> 0, acquired |-> <<>>, requests |-> <<>>,
               response |-> NoResponse, returned |-> NoResponse, result |-> "none"]
    /\ TokenStart
    /\ ListIdle
    /\ HandlersIdle
    /\ SeriesIdle
    /\ pool = <<>>
    /\ kvCache = <<>>
    /\ inflight = <<>>
    /\ catalog = <<>>
    /\ LaterIdle

\* gjson(url), or the part of handlePlayback / handleSubtitles that calls
\* the remote, begins.
CallBegin ==
    /\ call.pc \in {"idle", "done"}
    /\ call.n < MaxCalls
    /\ \E via \in Vias :
          call' = [call EXCEPT !.n = @ + 1, !.via = via, !.pc = "acquire",
                               !.accessToken = 0, !.response = NoResponse,
                               !.returned = NoResponse, !.result = "none"]
    /\ UNCHANGED otherThanCall

\* const accessToken = await getAccessToken(): a token, or a throw.
CallGetToken ==
    /\ call.pc = "acquire"
    /\ \/ \E t \in CallTokens :
             call' = [call EXCEPT !.accessToken = t, !.pc = "send",
                                  !.acquired = Append(@, [call |-> call.n, token |-> t,
                                                          seq |-> NextSeq(call)])]
       \/ call' = [call EXCEPT !.pc = "done", !.result = Thrown(call.via)]
    /\ UNCHANGED otherThanCall

\* fetch(url, { headers }) sends the request.
CallSend ==
    /\ call.pc = "send"
    /\ call' = [call EXCEPT !.pc = "wait",
                            !.requests = Append(@, [call |-> call.n, bearer |-> Bearer(call),
                                                    at |-> call.clock,
                                                    seq |-> NextSeq(call)])]
    /\ UNCHANGED otherThanCall

\* The fetch settles: its response goes back to the caller, or it throws.
CallRespond ==
    /\ call.pc = "wait"
    /\ \E r \in Responses(call.clock) :
          call' = IF r.kind = "threw"
                  THEN [call EXCEPT !.response = r, !.pc = "done",
                                    !.result = Thrown(call.via)]
                  ELSE [call EXCEPT !.response = r, !.returned = Returned(r),
                                    !.pc = "returned"]
    /\ UNCHANGED otherThanCall

\* if (!r.ok) ... in gjson; if (!driveRes.ok) ... in the handlers.
CallDecide ==
    /\ call.pc = "returned"
    /\ call' = [call EXCEPT !.pc = "done", !.result = Decided(call.via, call.returned)]
    /\ UNCHANGED otherThanCall

\* A second passes.
CallTick ==
    /\ call.pc \notin {"idle", "done"}
    /\ call.clock < MaxCallClock
    /\ call' = [call EXCEPT !.clock = @ + 1]
    /\ UNCHANGED otherThanCall

CallNext ==
    \/ CallBegin
    \/ CallGetToken
    \/ CallSend
    \/ CallRespond
    \/ CallDecide
    \/ CallTick

SpecCall == CallInit /\ [][CallNext]_vars

\* The call in hand is over and its fetch met a transport error.
TransportFailed == call.pc = "done" /\ call.response.kind = "threw"

\* C17: a call that meets transport or timeout failures is retried, a token
\* being acquired before each attempt, up to 4 attempts: no call issues more
\* than 4 requests, and a call whose attempts all failed has made 4 of them
\* and fails with RetryBudgetExhausted.
C17_TransportFailureIsRetried ==
    /\ Len(RequestsOf(call, call.n)) <= 4
    /\ TransportFailed =>
          /\ Len(RequestsOf(call, call.n)) = 4
          /\ Len(SelectSeq(call.acquired, LAMBDA a : a.call = call.n)) = 4
          /\ call.result = "RetryBudgetExhausted"

\* C18: a call answered 429 with Retry-After s is given a next attempt, sent
\* no earlier than s seconds after the 429: when the call is over, such a
\* request has been sent for it.
C18_RetryAfterIsHonoured ==
    (call.pc = "done" /\ call.response.status = 429) =>
        \E i \in 2..Len(RequestsOf(call, call.n)) :
            RequestsOf(call, call.n)[i].at >= call.response.at + call.response.retryAfter

\* The remote answered the call in hand with a non-2xx status other than 429.
PlainFailure ==
    /\ call.response.kind = "http"
    /\ ~Ok(call.response)
    /\ call.response.status # 429

\* C19: for a response with a non-2xx status other than 429, one request
\* has been issued for the call and no more, and the response goes back to
\* the caller with its status.
C19_PlainFailureGoesBackUnretried ==
    PlainFailure =>
        /\ Len(RequestsOf(call, call.n)) = 1
        /\ call.returned = call.response

C19_Witness ==
    /\ PlainFailure
    /\ call.pc = "done"
    /\ call.via = "gjson"
    /\ call.result = "null"
    /\ call.returned.status = 404

\* C20: every request sent to the remote carries a token that an earlier
\* getAccessToken of the same call returned, and a call makes no more
\* requests than acquisitions.
C20_RequestCarriesItsOwnToken ==
    /\ \A i \in 1..Len(call.requests) :
          \E j \in 1..Len(call.acquired) :
              /\ call.acquired[j].call = call.requests[i].call
              /\ call.acquired[j].seq < call.requests[i].seq
              /\ call.acquired[j].token = call.requests[i].bearer
    /\ \A n \in 1..call.n :
          Len(RequestsOf(call, n)) <= Len(SelectSeq(call.acquired, LAMBDA a : a.call = n))

\* Two calls got different tokens and each sent its request.
C20_Witness ==
    /\ Len(call.requests) >= 2
    /\ call.requests[1].call # call.requests[2].call
    /\ call.requests[1].bearer # call.requests[2].bearer
    /\ \E i \in 1..2 : call.requests[i].bearer = 2

\* The program takes each of its own steps in time; nothing obliges the
\* remote to answer.
FairSpecCall ==
    /\ SpecCall
    /\ WF_vars(CallGetToken)
    /\ WF_vars(CallSend)
    /\ WF_vars(CallDecide)
    /\ WF_vars(CallTick)

\* C21: every outbound call is bounded by a hard timeout: a request the
\* remote never answers is aborted and reported as failed, so a call that
\* waits for its response is over in the end.
C21_PendingCallEnds ==
    (call.pc = "wait") ~> (call.pc = "done")

----------------------------------------------------------------------------
(* The credential pool: acquire(count) over N identities *)

\* The identities of a pool of n: 0..n-1, as the rotation cursor counts them.
Identities(n) == 0..(n - 1)

Smaller(a, b) == IF a < b THEN a ELSE b

SliceClamped(cursor, count, n) ==
    [i \in 1..Smaller(count, n) |-> Smaller(cursor + i - 1, n - 1)]

\* The identities acquire(count) asks, wrapping from the rotation cursor.
SliceOf(cursor, count, n) ==
    [i \in 1..Smaller(count, n) |-> (cursor + i - 1) % n]

\* Identity i yields a token: its entry is fresh, or its exchange succeeds.
Yields(p, down, i) == p.entry[i] # 0 \/ i \notin down

\* The token identity i hands out: the one of its fresh entry, else the
\* next one the token endpoint issues for it.
TokenOf(p, i) ==
    [identity |-> i, serial |-> IF p.entry[i] # 0 THEN p.entry[i] ELSE p.minted[i] + 1]

\* The tokens of a slice: failed identities are skipped.
RECURSIVE Harvest(_, _, _)
Harvest(p, down, slice) ==
    IF slice = <<>> THEN <<>>
    ELSE (IF Yields(p, down, Head(slice)) THEN <<TokenOf(p, Head(slice))>> ELSE <<>>)
         \o Harvest(p, down, Tail(slice))

FailsOnAnyMiss(slice, tokens) == Len(tokens) < Len(slice)

\* NoCredentialsAvailable: every identity of the slice failed.
NoCredentialsAvailable(slice, tokens) == tokens = <<>>

\* The entries after the batch: an identity that exchanged keeps its token.
EntriesAfter(p, tokens) ==
    [i \in Identities(p.n) |->
        IF \E t \in 1..Len(tokens) : tokens[t].identity = i
        THEN (CHOOSE t \in 1..Len(tokens) : tokens[t].identity = i)
        ELSE 0]

Stocked(p, tokens, held) ==
    [i \in Identities(p.n) |-> IF held[i] # 0 THEN tokens[held[i]].serial ELSE p.entry[i]]

Minted(p, tokens, held) ==
    [i \in Identities(p.n) |->
        IF held[i] # 0 /\ p.entry[i] = 0 THEN p.minted[i] + 1 ELSE p.minted[i]]

\* acquire(count) done over slice with the exchanges of down failing.
Acquired(p, count, down, slice, tokens) ==
    [n |-> p.n,
     cursor |-> (p.cursor + Len(slice)) % p.n,
     entry |-> Stocked(p, tokens, EntriesAfter(p, tokens)),
     minted |-> Minted(p, tokens, EntriesAfter(p, tokens)),
     acquires |-> p.acquires + 1,
     count |-> count, before |-> p.cursor, down |-> down, slice |-> slice,
     tokens |-> tokens,
     failed |-> NoCredentialsAvailable(slice, tokens)]

PoolInit ==
    /\ \E n \in 1..MaxIdentities :
          pool = [n |-> n, cursor |-> 0,
                  entry |-> [i \in Identities(n) |-> 0],
                  minted |-> [i \in Identities(n) |-> 0],
                  acquires |-> 0, count |-> 0, before |-> 0, down |-> {},
                  slice |-> <<>>, tokens |-> <<>>, failed |-> FALSE]
    /\ NoCallYet
    /\ kvCache = <<>>
    /\ inflight = <<>>
    /\ catalog = <<>>
    /\ TokenStart
    /\ ListIdle
    /\ HandlersIdle
    /\ SeriesIdle
    /\ LaterIdle

\* acquire(count): some of the exchanges may fail.
Acquire ==
    /\ pool.acquires < MaxAcquires
    /\ \E count \in 1..pool.n, down \in SUBSET Identities(pool.n) :
          pool' = Acquired(pool, count, down, SliceOf(pool.cursor, count, pool.n),
                           Harvest(pool, down, SliceOf(pool.cursor, count, pool.n)))
    /\ UNCHANGED otherThanPool

\* The entry of an identity comes within the safety margin of its expiry.
PoolExpire ==
    /\ \E i \in Identities(pool.n) :
          /\ pool.entry[i] # 0
          /\ pool' = [pool EXCEPT !.entry[i] = 0]
    /\ UNCHANGED otherThanPool

PoolNext == Acquire \/ PoolExpire

SpecPool == PoolInit /\ [][PoolNext]_vars

\* C22: when every identity is healthy, acquire(k) with k <= N returns
\* exactly k tokens, each of a distinct identity, and moves the rotation
\* cursor on by k modulo N.
C22_HealthyAcquireGivesKDistinct ==
    (pool.acquires > 0 /\ pool.down = {} /\ pool.count <= pool.n) =>
        /\ Len(pool.tokens) = pool.count
        /\ \A a, b \in 1..Len(pool.tokens) :
              pool.tokens[a].identity = pool.tokens[b].identity => a = b
        /\ pool.cursor = (pool.before + pool.count) % pool.n

\* Two tokens asked of three identities, from the last one on.
C22_Witness ==
    /\ pool.acquires > 0
    /\ pool.down = {}
    /\ pool.n = 3
    /\ pool.count = 2
    /\ pool.before = 2
    /\ pool.cursor = 1

\* C23: an exchange failure for one identity does not fail the acquisition
\* while some identity of the slice yields a token; the acquisition fails
\* with NoCredentialsAvailable only when every identity of the slice failed.
C23_OneFailureDoesNotFailTheBatch ==
    pool.acquires > 0 =>
        /\ pool.tokens # <<>> => ~pool.failed
        /\ pool.failed =>
              \A i \in 1..Len(pool.slice) :
                  /\ pool.slice[i] \in pool.down
                  /\ \A t \in 1..Len(pool.tokens) : pool.tokens[t].identity # pool.slice[i]

\* Of two identities asked, one failed and the other gave its token.
C23_Witness ==
    /\ pool.acquires > 0
    /\ Len(pool.slice) = 2
    /\ pool.slice[1] \in pool.down
    /\ Len(pool.tokens) = 1
    /\ pool.tokens[1].identity = pool.slice[2]
    /\ ~pool.failed

\* Some entry of the series has this title.
HasEntry(title) == \E e \in 1..Len(metaVideos) : metaVideos[e].title = title

\* The playable files the remote holds in the subfolders of the folder.
RECURSIVE NestedCount(_)
NestedCount(i) ==
    IF i = 0 THEN 0 ELSE Len(beneath[i].names) + NestedCount(i - 1)

\* C24: the series built from a folder has one entry for every playable
\* file beneath it, the files of its subfolders included.
C24_EveryFileBeneathHasAnEntry ==
    (mpc = "built" /\ \A i \in 1..Len(contents) : beneath[i].listing # "fails") =>
        /\ \A i \in 1..Len(contents) :
              /\ IsVideo(contents[i]) => HasEntry(contents[i].name)
              /\ \A j \in 1..Len(beneath[i].names) : HasEntry(beneath[i].names[j])
        /\ Len(metaVideos) = Len(SelectSeq(contents, IsVideo)) + NestedCount(Len(contents))

\* C25: when the listing of one subfolder fails, the series still has the
\* entries of the folder's own files and of every other subfolder, whose
\* listing succeeded.
C25_FailedSubfolderCostsOnlyItsOwn ==
    (mpc = "built" /\ \E i \in 1..Len(contents) : beneath[i].listing = "fails") =>
        \A i \in 1..Len(contents) :
            /\ IsVideo(contents[i]) => HasEntry(contents[i].name)
            /\ beneath[i].listing = "ok" =>
                  \A j \in 1..Len(beneath[i].names) : HasEntry(beneath[i].names[j])

\* C26: a cache read that returns a value that cannot be parsed is treated
\* as a miss: the handler goes on to the remote API and answers as it would
\* for an absent key; nothing is raised.
C26_UnparsableReadIsAMiss ==
    (revision = "v1.1.0" /\ last.garbled) =>
        /\ last.status # 0
        /\ ~last.hit
        /\ last.calls > 0

----------------------------------------------------------------------------
(* kvCache on its own: set, get and the passing of time *)

CacheKeys == {"k1", "k2"}
CacheValues == {1, 2}

\* The fallback and a working Redis client.
CacheBackends == {"redis", "mock"}

NoGet == [key |-> "none", kind |-> "none", value |-> 0, expected |-> 0]

\* What was put under key and is still within its ex: 0 for nothing.
LiveValue(c, key) ==
    IF c.put[key].value # 0 /\ c.put[key].age < c.put[key].ex
    THEN c.put[key].value ELSE 0

\* The value of what kvCache.get returned: 0 for null.
GotValue(got) == IF got.kind = "hit" THEN got.record.value ELSE 0

\* Redis drops a record when its ex has run out.
Aged(c, key) ==
    IF c.kv[key].present /\ c.put[key].age + 1 >= c.kv[key].ex
    THEN NoRecord ELSE c.kv[key]

CacheInit ==
    /\ \E b \in CacheBackends :
          kvCache = [backend |-> b,
                   kv |-> [k \in CacheKeys |-> NoRecord],
                   put |-> [k \in CacheKeys |-> [value |-> 0, ex |-> 0, age |-> 0]],
                   got |-> NoGet, ops |-> 0]
    /\ call = <<>>
    /\ pool = <<>>
    /\ inflight = <<>>
    /\ catalog = <<>>
    /\ TokenStart
    /\ ListIdle
    /\ HandlersIdle
    /\ SeriesIdle
    /\ LaterIdle

\* await kvCache.set(key, value, { ex })
CachePut ==
    /\ kvCache.ops < MaxCacheOps
    /\ \E key \in CacheKeys, v \in CacheValues, ex \in 1..MaxTtl :
          kvCache' = [kvCache EXCEPT
                       !.kv = CacheSet(kvCache.backend, kvCache.kv, key,
                                       [present |-> TRUE, value |-> v, ex |-> ex]).kv,
                       !.put[key] = [value |-> v, ex |-> ex, age |-> 0],
                       !.ops = @ + 1]
    /\ UNCHANGED otherThanCache

\* await kvCache.get(key)
CacheRead ==
    /\ kvCache.ops < MaxCacheOps
    /\ \E key \in CacheKeys :
          kvCache' = [kvCache EXCEPT
                       !.got = [key |-> key,
                                kind |-> CacheGet(kvCache.backend, kvCache.kv, key).kind,
                                value |-> GotValue(CacheGet(kvCache.backend, kvCache.kv, key)),
                                expected |-> LiveValue(kvCache, key)],
                       !.ops = @ + 1]
    /\ UNCHANGED otherThanCache

\* A second passes.
CacheTick ==
    /\ \E k \in CacheKeys : kvCache.put[k].value # 0 /\ kvCache.put[k].age < kvCache.put[k].ex
    /\ kvCache' = [kvCache EXCEPT
                    !.kv = [k \in CacheKeys |-> Aged(kvCache, k)],
                    !.put = [k \in CacheKeys |->
                                IF kvCache.put[k].age < kvCache.put[k].ex
                                THEN [kvCache.put[k] EXCEPT !.age = @ + 1]
                                ELSE kvCache.put[k]]]
    /\ UNCHANGED otherThanCache

CacheNext == CachePut \/ CacheRead \/ CacheTick

SpecCache == CacheInit /\ [][CacheNext]_vars

\* C27: with the Redis client as with the fallback, a get(key) that follows
\* a put(key, v, ttl), before the ttl has run out and with no other write to
\* the key between them, returns v.
C27_GetReturnsWhatWasPut ==
    kvCache.got.expected # 0 =>
        /\ kvCache.got.kind = "hit"
        /\ kvCache.got.value = kvCache.got.expected

----------------------------------------------------------------------------
(* handleMeta: two requests for one folder in flight together *)

Requesters == {1, 2}

\* The files Drive returns in one page of the listing.
InflightPage == 2

\* The kinds of file the folder holds.
InflightKinds ==
    {c \in Children :
        c.name \in {<<"S", "0", "1", "E", "0", "2">>, <<"2", "x", "0", "1">>,
                    <<"I", "n", "t", "r", "o">>, <<"S", "e", "a", "s", "o", "n", " ", "2">>}}

\* A request before handleMeta has begun: its own allContents, the page it
\* asks next, the token of its last fetch, its response.
Arrived ==
    [pc |-> "get", allContents |-> <<>>, next |-> 1, bearer |-> 0,
     videos |-> <<>>, answer |-> <<>>, answered |-> FALSE]

\* The page of the listing that begins at place from.
PageFrom(files, from) ==
    SubSeq(files, from, Smaller(from + InflightPage - 1, Len(files)))

BuiltFromFirst(i, r) == i.req[1].allContents

\* const videos = allContents.filter(...): the request's own listing.
BuiltFrom(i, r) == i.req[r].allContents

\* Another request is between its first and its last step.
Amid(i, r) == \E o \in Requesters \ {r} : i.req[o].pc \notin {"get", "done"}

InflightInit ==
    /\ \E kinds \in [1..MaxInflightFiles -> InflightKinds] :
       \E b \in CacheBackends :
          inflight = [content |-> Listed(kinds), backend |-> b,
                      stored |-> FALSE, record |-> <<>>,
                      token |-> 0, issuedTokens |-> 0, overlap |-> FALSE,
                      req |-> [r \in Requesters |-> Arrived]]
    /\ call = <<>>
    /\ pool = <<>>
    /\ kvCache = <<>>
    /\ catalog = <<>>
    /\ TokenStart
    /\ ListIdle
    /\ HandlersIdle
    /\ SeriesIdle
    /\ LaterIdle

\* const cached = await kvCache.get(cacheKey); if (cached) return res.json(...)
MetaGet(r) ==
    /\ inflight.req[r].pc = "get"
    /\ inflight' =
          IF inflight.stored
          THEN [inflight EXCEPT !.req[r].pc = "done", !.req[r].answered = TRUE,
                                !.req[r].answer = inflight.record,
                                !.overlap = @ \/ Amid(inflight, r)]
          ELSE [inflight EXCEPT !.req[r].pc = "token",
                                !.overlap = @ \/ Amid(inflight, r)]
    /\ UNCHANGED otherThanInflight

\* withAuthFetch: await getAccessToken(), from the shared accessTokenCache.
MetaToken(r) ==
    /\ inflight.req[r].pc = "token"
    /\ inflight.token # 0 \/ inflight.issuedTokens < MaxInflightTokens
    /\ inflight' =
          IF inflight.token # 0
          THEN [inflight EXCEPT !.req[r].pc = "page", !.req[r].bearer = inflight.token,
                                !.overlap = @ \/ Amid(inflight, r)]
          ELSE [inflight EXCEPT !.req[r].pc = "page",
                                !.req[r].bearer = inflight.issuedTokens + 1,
                                !.token = inflight.issuedTokens + 1,
                                !.issuedTokens = @ + 1,
                                !.overlap = @ \/ Amid(inflight, r)]
    /\ UNCHANGED otherThanInflight

\* listAllFiles: one page comes back and is pushed on the request's allFiles.
MetaPage(r) ==
    /\ inflight.req[r].pc = "page"
    /\ inflight' =
          [inflight EXCEPT
              !.req[r].allContents =
                  @ \o PageFrom(inflight.content, inflight.req[r].next),
              !.req[r].next = @ + InflightPage,
              !.req[r].pc = IF inflight.req[r].next + InflightPage <= Len(inflight.content)
                            THEN "token" ELSE "build",
              !.overlap = @ \/ Amid(inflight, r)]
    /\ UNCHANGED otherThanInflight

\* meta.videos = videos.map(...).sort(...)
MetaBuild(r) ==
    /\ inflight.req[r].pc = "build"
    /\ inflight' =
          [inflight EXCEPT
              !.req[r].videos = EpisodesOf(SelectSeq(BuiltFrom(inflight, r), IsVideo)),
              !.req[r].pc = "set",
              !.overlap = @ \/ Amid(inflight, r)]
    /\ UNCHANGED otherThanInflight

\* await kvCache.set(cacheKey, meta, ...); res.json({ meta })
MetaSet(r) ==
    /\ inflight.req[r].pc = "set"
    /\ inflight' =
          [inflight EXCEPT
              !.stored = @ \/ inflight.backend = "redis",
              !.record = IF inflight.backend = "redis" THEN inflight.req[r].videos ELSE @,
              !.req[r].answer = inflight.req[r].videos,
              !.req[r].answered = TRUE,
              !.req[r].pc = "done",
              !.overlap = @ \/ Amid(inflight, r)]
    /\ UNCHANGED otherThanInflight

\* The cached token runs out: accessTokenCache no longer serves it.
TokenLapse ==
    /\ inflight.token # 0
    /\ inflight.issuedTokens < MaxInflightTokens
    /\ inflight' = [inflight EXCEPT !.token = 0]
    /\ UNCHANGED otherThanInflight

InflightNext ==
    \/ \E r \in Requesters : MetaGet(r)
    \/ \E r \in Requesters : MetaToken(r)
    \/ \E r \in Requesters : MetaPage(r)
    \/ \E r \in Requesters : MetaBuild(r)
    \/ \E r \in Requesters : MetaSet(r)
    \/ TokenLapse

SpecInflight == InflightInit /\ [][InflightNext]_vars

OnlyRefreshWrites ==
    accessTokenCache' # accessTokenCache =>
        \E c \in Callers : tpc[c] = "fetching" /\ tpc'[c] \in {"returned", "threw"}

\* A call made while the cached token is far from its expiry has returned
\* that token, from the cache.
FreshCallServedFromCache ==
    \A c \in Callers :
        tcall[c].fresh =>
            /\ tpc[c] = "returned"
            /\ tcall[c].fromCache
            /\ tcall[c].token = tcall[c].old

\* C29: while the cached token's expiry is more than the safety margin
\* away, getAccessToken returns that token without an exchange request and
\* leaves the token cache as it is; nothing but the refresh path of
\* getAccessToken changes the token cache.
C29_FreshTokenReusedCacheUntouched ==
    []FreshCallServedFromCache /\ [][OnlyRefreshWrites]_vars

\* A call was served the cached token, far from its expiry, after time had
\* passed since the exchange.
C29_Witness ==
    \E c \in Callers :
        /\ tcall[c].fresh
        /\ tpc[c] = "returned"
        /\ tcall[c].at > 0
        /\ accessTokenCache.token = tcall[c].token

----------------------------------------------------------------------------
(* handleCatalog: the order of the items *)

ShelfNames == {"a", "b", "c"}

\* The place of a name in Drive's orderBy: 'name'.
NameRank(n) == IF n = "a" THEN 1 ELSE IF n = "b" THEN 2 ELSE 3

\* The files of a folder: each name with its createdTime, 0 for no such file.
Shelves == [ShelfNames -> 0..MaxCreated]

FilesOf(shelf) ==
    {[name |-> n, createdTime |-> shelf[n]] : n \in {x \in ShelfNames : shelf[x] # 0}}

\* The orderBy of the listing handleCatalog asks for: 'createdTime desc'
\* for the recents, 'name' for a folder, none for a search.
OrderBy(id) ==
    IF id = RECENTS THEN "createdTime desc"
    ELSE IF IsFolderId(id) THEN "name"
    ELSE "none"

\* Drive lists a before b under the orderBy asked.
ListedBefore(orderBy, a, b) ==
    IF orderBy = "createdTime desc" THEN a.createdTime >= b.createdTime
    ELSE IF orderBy = "name" THEN NameRank(a.name) <= NameRank(b.name)
    ELSE TRUE

\* The orders in which the remote can list the files.
RemoteOrders(files, orderBy) ==
    {seq \in [1..Cardinality(files) -> files] :
        /\ \A i, j \in 1..Cardinality(files) : seq[i] = seq[j] => i = j
        /\ \A i, j \in 1..Cardinality(files) : i < j => ListedBefore(orderBy, seq[i], seq[j])}

\* fileToMeta, with the createdTime of the file the item came from.
ItemOf(file) == [name |-> file.name, createdTime |-> file.createdTime]

CatalogIds == {RECENTS, ROOT1, FOLDER1, SEARCH}

CatalogInit ==
    /\ \E id \in CatalogIds, shelf \in Shelves :
       \E listing \in RemoteOrders(FilesOf(shelf), OrderBy(id)) :
          catalog = [id |-> id, remote |-> listing, files |-> <<>>, metas |-> <<>>,
                     pc |-> "page"]
    /\ call = <<>>
    /\ pool = <<>>
    /\ kvCache = <<>>
    /\ inflight = <<>>
    /\ TokenStart
    /\ ListIdle
    /\ HandlersIdle
    /\ SeriesIdle
    /\ LaterIdle

\* listAllFiles: the next page is pushed on allFiles.
CatalogPage ==
    /\ catalog.pc = "page"
    /\ catalog' =
          [catalog EXCEPT
              !.files = @ \o PageFrom(catalog.remote, Len(catalog.files) + 1),
              !.pc = IF Len(catalog.files) + InflightPage >= Len(catalog.remote)
                     THEN "map" ELSE "page"]
    /\ UNCHANGED otherThanCatalog

\* const metas = files.map(fileToMeta); res.json({ metas })
CatalogSend ==
    /\ catalog.pc = "map"
    /\ catalog' = [catalog EXCEPT !.metas = MapSeq(ItemOf, catalog.files),
                                  !.pc = "sent"]
    /\ UNCHANGED otherThanCatalog

CatalogNext == CatalogPage \/ CatalogSend

SpecCatalog == CatalogInit /\ [][CatalogNext]_vars

\* C30: every catalog response, of the recents, of a root folder, of a
\* subfolder or of a search, over one page or several, lists its items
\* newest first: in non-increasing order of createdTime.
C30_CatalogNewestFirst ==
    catalog.pc = "sent" =>
        \A i, j \in 1..Len(catalog.metas) :
            i < j => catalog.metas[i].createdTime >= catalog.metas[j].createdTime

----------------------------------------------------------------------------
(* getAccessToken: concurrent calls and the failure path *)

\* The cached token has not reached its recorded expiry.
Unexpired(cache, t) == cache.token # 0 /\ t < cache.exp

\* The cache holds the result of an exchange that succeeded in this step.
ReplacedByExchange == accessTokenCache'.token > issued

\* A step keeps the unexpired token or replaces it by a new one.
KeptOrReplaced ==
    Unexpired(accessTokenCache, now) =>
        \/ accessTokenCache' = accessTokenCache
        \/ ReplacedByExchange

\* C31: under any interleaving of concurrent getAccessToken calls, a token
\* stored in the cache by a successful exchange stays cached until its
\* recorded expiry unless the result of another successful exchange
\* replaces it; a concurrent call whose exchange fails never discards it.
C31_StoredTokenOutlivesFailures == [][KeptOrReplaced]_vars

\* The exchange of caller c fails in this step.
ExchangeFails(c) == tpc[c] = "fetching" /\ tpc'[c] = "threw"

\* Caller c starts a call in this step.
CallStarts(c) == tpc[c] = "idle" /\ tpc'[c] # "idle"

\* A failed exchange empties the cache and hands the caller nothing; a call
\* that starts on the emptied cache sends an exchange request.
FailureEmptiesAndRethrows ==
    \A c \in Callers :
        /\ ExchangeFails(c) =>
              /\ accessTokenCache'.token = 0
              /\ accessTokenCache'.exp = 0
              /\ tcall'[c].token = 0
        /\ (CallStarts(c) /\ accessTokenCache.token = 0) => tpc'[c] = "fetching"

\* A call that threw handed its caller no token, stale or empty.
NothingFromAFailure ==
    \A c \in Callers :
        tpc[c] = "threw" => tcall[c].token = 0 /\ ~tcall[c].fromCache

\* C32: when the token exchange fails (non-2xx reply or transport error),
\* getAccessToken resets the token cache to empty (token null, expiry 0)
\* and rethrows; it never returns a stale or empty token, and the next call
\* issues a fresh exchange.
C32_FailedExchangeEmptiesCache ==
    []NothingFromAFailure /\ [][FailureEmptiesAndRethrows]_vars

\* After a token had been cached, one call's exchange failed and the call
\* that started next found the cache empty and is exchanging.
C32_Witness ==
    \E c, d \in Callers :
        /\ c # d
        /\ tpc[c] = "threw"
        /\ tpc[d] = "fetching"
        /\ tcall[d].old = 0
        /\ tcall[d].seen >= 1
        /\ accessTokenCache.token = 0

----------------------------------------------------------------------------
(* Handlers: what an error answer leaves behind *)

\* A catalog or meta request was answered with 404 or 500 in this step.
AnsweredWithError ==
    /\ handled' # handled
    /\ last'.kind \in {"catalog", "meta"}
    /\ last'.status \in {404, 500}

\* kvCache.set is the only write to the store, and no error path reaches it.
ErrorLeavesCache == AnsweredWithError => kv' = kv

\* C33: on every path where a catalog or meta handler answers with an error
\* status (404 or 500) the key/value cache is left unchanged, so a later
\* request for the same key is never served an error result from the cache.
C33_ErrorAnswerLeavesCache == [][ErrorLeavesCache]_vars

\* Over a store that holds a record, a catalog request was answered 500.
C33_Witness ==
    /\ backend = "redis"
    /\ last.kind = "catalog"
    /\ last.status = 500
    /\ \E key \in Keys : kv[key].present

----------------------------------------------------------------------------
(* The request-level timeout over handleCatalog and handleMeta *)

\* app.use(timeout("120s")), in seconds.
RequestTimeoutS == 120

\* Time passes in steps of a minute.
TimedSteps == {60}

TimedKinds == {"catalog", "meta"}

\* What the remote call the handler is suspended on comes to: the listing
\* returns files, throws (handleCatalog answers 500), or the entity is
\* missing (handleMeta answers 404).
TimedOutcomes == {"ok", "threw", "null"}

\* The handler after the remote call it awaited: handleCatalog goes to its
\* catch, sends an empty list unstored, or stores; handleMeta answers 404 or
\* stores.
Resumed(t) ==
    IF t.kind = "catalog"
    THEN IF t.outcome = "threw" THEN [t EXCEPT !.pc = "send", !.status = 500]
         ELSE IF t.files = 0 \/ t.outcome = "null"
              THEN [t EXCEPT !.pc = "send", !.status = 200]
         ELSE [t EXCEPT !.pc = "set", !.status = 200]
    ELSE IF t.outcome = "null" THEN [t EXCEPT !.pc = "send", !.status = 404]
         ELSE IF t.outcome = "threw" THEN [t EXCEPT !.pc = "done"]
         ELSE [t EXCEPT !.pc = "set", !.status = 200]

\* res.json(...): the response goes out unless one already went, in which
\* case the write is refused (headers already sent) and the handler ends.
Written(t) ==
    IF t.sent = <<>>
    THEN [t EXCEPT !.sent = <<t.status>>, !.pc = "done"]
    ELSE [t EXCEPT !.refused = @ + 1, !.pc = "done"]

\* The request passed "if (!req.timedout) next()" and its handler begins.
TimedInit ==
    /\ \E kind \in TimedKinds, hit \in BOOLEAN, outcome \in TimedOutcomes,
          files \in 0..MaxTimedFiles :
          timed = [kind |-> kind, hit |-> hit, outcome |-> outcome, files |-> files,
                   pc |-> "get", status |-> 0, clock |-> 0, timedout |-> FALSE,
                   sent |-> <<>>, refused |-> 0, stored |-> <<>>]
    /\ runs = <<>>
    /\ playback = <<>>
    /\ CallIdle
    /\ TokenStart
    /\ ListIdle
    /\ HandlersIdle
    /\ SeriesIdle

\* const cached = await kvCache.get(cacheKey); if (cached) return res.json(...)
TimedGet ==
    /\ timed.pc = "get"
    /\ timed' = IF timed.hit THEN [timed EXCEPT !.pc = "send", !.status = 200]
                ELSE [timed EXCEPT !.pc = "remote"]
    /\ UNCHANGED otherThanTimed

\* The remote call the handler awaits (listAllFiles, gjson) settles.
TimedResume ==
    /\ timed.pc = "remote"
    /\ timed' = Resumed(timed)
    /\ UNCHANGED otherThanTimed

\* await kvCache.set(cacheKey, ...): nothing asks whether the request timed out.
TimedSet ==
    /\ timed.pc = "set"
    /\ timed' = [timed EXCEPT !.stored = Append(@, [afterTimeout |-> timed.timedout]),
                              !.pc = "send"]
    /\ UNCHANGED otherThanTimed

\* res.json(...) or res.status(...).json(...)
TimedSend ==
    /\ timed.pc = "send"
    /\ timed' = Written(timed)
    /\ UNCHANGED otherThanTimed

\* Time passes while the request is open.
TimedTick ==
    /\ timed.pc # "done"
    /\ \E d \in TimedSteps :
          /\ timed.clock + d <= RequestTimeoutS
          /\ timed' = [timed EXCEPT !.clock = @ + d]
    /\ UNCHANGED otherThanTimed

\* The timer of the timeout middleware fires on a request not yet answered:
\* req.timedout is set and the error it raises is answered with 503.
TimedOut ==
    /\ timed.clock >= RequestTimeoutS
    /\ ~timed.timedout
    /\ timed.sent = <<>>
    /\ timed' = [timed EXCEPT !.timedout = TRUE, !.sent = <<503>>]
    /\ UNCHANGED otherThanTimed

TimedNext ==
    \/ TimedGet
    \/ TimedResume
    \/ TimedSet
    \/ TimedSend
    \/ TimedTick
    \/ TimedOut

SpecTimed == TimedInit /\ [][TimedNext]_vars

\* C34: for a request whose request-level timeout fires while its handler
\* is suspended on a remote call, at most one response is written: once the
\* timeout response has been sent, the handler writes no second response
\* and no cache record when it resumes.
C34_NothingWrittenAfterTimeout ==
    /\ Len(timed.sent) <= 1
    /\ \A i \in 1..Len(timed.stored) : ~timed.stored[i].afterTimeout

----------------------------------------------------------------------------
(* Two runs of one request that differ only in their secrets *)

\* The values of process.env the runs can differ in, and the token the
\* exchange gives.
AccessTokens == {"ya29.a", "ya29.b"}
ClientSecrets == {"secret.a", "secret.b"}
RefreshTokens == {"1//a", "1//b"}

Secrets == [accessToken : AccessTokens, client_secret : ClientSecrets,
            refresh_token : RefreshTokens]

\* body: new URLSearchParams({ client_id, client_secret, refresh_token, grant_type })
ExchangeForm(s) ==
    <<"client_id", "client_secret=", s.client_secret,
      "refresh_token=", s.refresh_token, "grant_type=refresh_token">>

\* headers: { 'Authorization': `Bearer ${accessToken}` }
Authorization(s) == <<"Bearer ", s.accessToken>>

\* What leaves for the remote side in a run: the exchange and the request.
Outbound(s) == <<ExchangeForm(s), Authorization(s)>>

\* What the client is sent: the status and the body.
Reply(r) == [status |-> r.status, body |-> r.body]

\* The store of a process without Redis.
NoStore == [key \in Keys |-> NoRecord]

StreamSeenWithToken(s, id, fo, hasParent, lr) ==
    [status |-> StreamResult(NoStore, id, fo, TRUE, hasParent, lr).status,
     body |-> <<"/playback/", id, "?access_token=", s.accessToken>>]

\* handleStream: const accessToken = await getAccessToken() is in scope
\* where the streams are built, and streamUrl is made of CONFIG.baseUrl and
\* file.id alone.
StreamSeen(s, id, fo, hasParent, lr) ==
    Reply(StreamResult(NoStore, id, fo, TRUE, hasParent, lr))

\* A run of one request: what the client saw, what left for the remote.
RunOf(s, seen) == [secrets |-> s, seen |-> seen, out |-> Outbound(s)]

\* The request is handled in both runs, over the same remote.
Both(kind, seenA, seenB) ==
    /\ runs' = [n |-> runs.n + 1, kind |-> kind,
                a |-> RunOf(runs.a.secrets, seenA), b |-> RunOf(runs.b.secrets, seenB)]
    /\ UNCHANGED otherThanRuns

NoRun(s) == [secrets |-> s, seen |-> [status |-> 0, body |-> <<>>], out |-> <<>>]

RunsInit ==
    /\ \E sa, sb \in Secrets :
          runs = [n |-> 0, kind |-> "none", a |-> NoRun(sa), b |-> NoRun(sb)]
    /\ timed = <<>>
    /\ playback = <<>>
    /\ CallIdle
    /\ TokenStart
    /\ ListIdle
    /\ HandlersIdle
    /\ SeriesIdle

RunCatalog ==
    /\ runs.n < MaxRuns
    /\ \E req \in CatalogRequests, lr \in ListResults :
           Both("catalog", Reply(CatalogResult("mock", NoStore, req, lr)),
                Reply(CatalogResult("mock", NoStore, req, lr)))

RunMeta ==
    /\ runs.n < MaxRuns
    /\ \E id \in MetaIds, fo \in EntityOutcomes, lr \in ListResults :
           Both("meta", Reply(MetaResult("mock", NoStore, id, fo, lr)),
                Reply(MetaResult("mock", NoStore, id, fo, lr)))

RunStream ==
    /\ runs.n < MaxRuns
    /\ \E id \in StreamIds, fo \in EntityOutcomes, hasParent \in BOOLEAN, lr \in ListResults :
           Both("stream", StreamSeen(runs.a.secrets, id, fo, hasParent, lr),
                StreamSeen(runs.b.secrets, id, fo, hasParent, lr))

RunPlayback ==
    /\ runs.n < MaxRuns
    /\ \E id \in MediaIds, mo \in MediaOutcomes :
       \E driveStatus \in IF mo = "ok" THEN {200, 206} ELSE {403, 404} :
           Both("playback", Reply(PlaybackResult(NoStore, id, TRUE, mo, driveStatus)),
                Reply(PlaybackResult(NoStore, id, TRUE, mo, driveStatus)))

RunSubtitles ==
    /\ runs.n < MaxRuns
    /\ \E id \in MediaIds, mo \in MediaOutcomes :
       \E driveStatus \in IF mo = "ok" THEN {200, 206} ELSE {403, 404} :
           Both("subtitles", Reply(SubtitlesResult(NoStore, id, TRUE, mo, driveStatus)),
                Reply(SubtitlesResult(NoStore, id, TRUE, mo, driveStatus)))

RunsNext ==
    \/ RunCatalog
    \/ RunMeta
    \/ RunStream
    \/ RunPlayback
    \/ RunSubtitles

SpecRuns == RunsInit /\ [][RunsNext]_vars

----------------------------------------------------------------------------
(* handlePlayback: the Range header and the status *)

\* A header of a request: absent (undefined), or present with its value,
\* which may be the empty string.
NoHeader == [present |-> FALSE, value |-> <<>>]
Header(v) == [present |-> TRUE, value |-> v]

ClientRanges == {NoHeader, Header(<<>>), Header(<<"bytes=0-">>),
                 Header(<<"bytes=100-199">>)}

\* The statuses of the media endpoint: 2xx and the others.
MediaStatuses(mo) == IF mo = "ok" THEN {200, 206} ELSE {403, 404, 416}

MediaRangeFromStart(range) == Header(<<"bytes=0-">>)

\* const range = req.headers.range; if (range) headers.Range = range;
MediaRange(range) == IF range.present /\ range.value # <<>> THEN range ELSE NoHeader

NoMediaRequest == [sent |-> FALSE, range |-> NoHeader]
NoMediaReply == [mo |-> "none", status |-> 0]

\* The media endpoint answered with a status line.
HasStatus(reply) == reply.mo \in {"ok", "status", "statusNoText"}

NoPlayback ==
    [n |-> 0, pc |-> "idle", range |-> NoHeader, media |-> NoMediaRequest,
     reply |-> NoMediaReply, status |-> 0]

PlaybackInit ==
    /\ playback = NoPlayback
    /\ timed = <<>>
    /\ runs = <<>>
    /\ CallIdle
    /\ TokenStart
    /\ ListIdle
    /\ HandlersIdle
    /\ SeriesIdle

\* GET /playback/:id arrives, with or without a Range header.
PlaybackRequest ==
    /\ playback.pc \in {"idle", "answered"}
    /\ playback.n < MaxPlaybacks
    /\ \E range \in ClientRanges :
          playback' = [NoPlayback EXCEPT !.n = playback.n + 1, !.pc = "token",
                                         !.range = range]
    /\ UNCHANGED otherThanPlayback

\* const accessToken = await getAccessToken() threw: the catch sends 500.
PlaybackTokenFails ==
    /\ playback.pc = "token"
    /\ playback' = [playback EXCEPT
                      !.pc = "answered",
                      !.status = PlaybackResult(<<>>, <<"V1">>, FALSE, "ok", 200).status]
    /\ UNCHANGED otherThanPlayback

\* const driveRes = await fetch(driveUrl, { headers })
PlaybackFetch ==
    /\ playback.pc = "token"
    /\ playback' = [playback EXCEPT
                      !.pc = "fetch",
                      !.media = [sent |-> TRUE, range |-> MediaRange(playback.range)]]
    /\ UNCHANGED otherThanPlayback

\* The fetch settles and the handler answers the client.
PlaybackAnswer ==
    /\ playback.pc = "fetch"
    /\ \E mo \in MediaOutcomes :
       \E driveStatus \in MediaStatuses(mo) :
          playback' = [playback EXCEPT
                         !.pc = "answered",
                         !.reply = [mo |-> mo,
                                    status |-> IF mo = "transport" THEN 0 ELSE driveStatus],
                         !.status = PlaybackResult(<<>>, <<"V1">>, TRUE, mo, driveStatus).status]
    /\ UNCHANGED otherThanPlayback

PlaybackNext ==
    \/ PlaybackRequest
    \/ PlaybackTokenFails
    \/ PlaybackFetch
    \/ PlaybackAnswer

SpecPlayback == PlaybackInit /\ [][PlaybackNext]_vars

\* The media request carries the client's Range header, value and all, and
\* none when the client sent none.
RangeCarriedAsSent ==
    playback.media.sent => playback.media.range = playback.range

RangeHasValue(range) == range.present /\ range.value # <<>>

====
